---- MODULE Spec2Model ----
(***************************************************************************)
(* Adaptive element-location engine of google_lens_scrapper                *)
(* (src/src/agent_browser.py): the selector learner and script cache of    *)
(* SelectorLearningSystem and the three-tier smart_click / smart_fill.     *)
(*                                                                         *)
(* Python values are modelled as follows.                                  *)
(*   dict            a function (script_cache) or, where the iteration     *)
(*                   order of the dict matters (sorted() is stable), a     *)
(*                   sequence of entries in insertion order                *)
(*   float s/t       the reduced fraction <<n, d>> of the quotient; two    *)
(*                   quotients of small integers are the same float iff    *)
(*                   they are the same fraction                            *)
(*   str             a TLA+ string; a string that the code compares with   *)
(*                   < (last_used) is a sequence of one-character strings  *)
(*   None/True/False the strings "None", "True", "False"                   *)
(*   exceptions      a step that raises goes where the enclosing try of    *)
(*                   the code sends it; pc = "raised" is an exception that *)
(*                   left smart_click / smart_fill                         *)
(*                                                                         *)
(* Spec runs smart_fill / smart_click calls one after the other on the     *)
(* shared learning_system, each call one step per awaited operation.       *)
(* SpecPrio applies get_prioritized_selectors to the stores that           *)
(* record_selector_success can leave.                                      *)
(***************************************************************************)
EXTENDS Integers, Sequences, FiniteSets, TLC

VARIABLES
    history,            \* learning_system.selector_success_history
    script_cache,       \* learning_system.script_cache
    now,                \* the wall clock read by datetime.now(), in microseconds
    pc,                 \* position inside smart_click / smart_fill
    kind,               \* "click" (smart_click) or "fill" (smart_fill)
    element_type,       \* argument element_type
    default_selectors,  \* local default_selectors
    prioritized,        \* local prioritized_selectors
    i,                  \* position of the for loop in prioritized_selectors (1-based)
    html_context,       \* local html_context
    context_hash,       \* local context_hash
    cached_script,      \* local cached_script
    ai_script,          \* local ai_script
    ret,                \* the value the action returned ("None" while running)
    ncalls,             \* number of actions started so far
    log,                \* history variable: what the current action did, in order
    hist0,              \* history variable: selector_success_history when the action started
    cache0,             \* history variable: script_cache when the action started
    lastStore,          \* history variable: the latest cache_script call
    lastLookup,         \* history variable: the latest get_cached_script call
    \* execute_ai_script
    exec_script,        \* argument script: what the text does when it is run
    exec_pc,            \* position inside execute_ai_script
    local_namespace,    \* local local_namespace: the names bound, in dict order
    func_name,          \* local func_name
    exec_result,        \* the value execute_ai_script returned
    \* ask_agent_for_playwright_script
    task,               \* argument task
    page_context,       \* argument page_context
    gen_pc,             \* position inside ask_agent_for_playwright_script
    messages,           \* local messages: the roles and contents sent
    response,           \* what client.chat.completions.create answered
    api_calls,          \* number of client.chat.completions.create calls made
    gen_script,         \* the value ask_agent_for_playwright_script returned
    \* lens_search
    image_url,          \* argument image_url
    search_type,        \* argument search_type
    lens_pc,            \* position inside lens_search
    browser,            \* local browser: "None", "open" or "closed"
    context,            \* local context: "None", "open" or "closed"
    results,            \* local results: the entries in insertion order
    tabs_to_process,    \* the tabs the for loop has still to process
    pending,            \* the value of the return statement that is being executed
    returned,           \* the value lens_search returned
    fault,              \* the exception in flight, "None" without one
    alerts,             \* the send_custom_msg calls made, in order
    disk_history,       \* contents of the learning file
    disk_cache,         \* contents of the script cache file
    trace,              \* history variable: what lens_search did, in order
    fixed_page,         \* << >>, or the one page every read of the search sees
    \* two searches on one event loop
    tasks,              \* per search: its position in smart_click and its locals
    tally,              \* history variable: the attempts recorded per (element type, selector)
    uses,               \* history variable: the hits per cache key since the key was stored
    \* the life of the process
    store_pc,           \* "off", "boot", "boot_cache", "up" or "raised"
    last,               \* history variable: the latest load or save and what it met
    \* repeated actions
    keeper,             \* the selector that works on the page, "" when none is singled out
    \* extract_product_data
    extract_pc,         \* position inside extract_product_data
    products,           \* local products
    extracted,          \* the value extract_product_data returned
    calls,              \* history variable: the functions it called, in order
    \* GoogleLensService.search_image
    attempt,            \* loop variable attempt
    driver,             \* local driver: "None" or the driver setup_driver returned
    live,               \* the drivers that were created and have not quit
    image_pc,           \* position inside search_image
    lens_response,      \* the LensResponse search_image is returning, << >> before
    chrome_installed,   \* GoogleLensService.chrome_installed
    image_call          \* the arguments of search_image

\* the state of learning_system and of one smart_click / smart_fill call
smartVars == <<history, script_cache, now, pc, kind, element_type,
               default_selectors, prioritized, i, html_context, context_hash,
               cached_script, ai_script, ret, ncalls, log, hist0, cache0,
               lastStore, lastLookup>>

execVars == <<exec_script, exec_pc, local_namespace, func_name, exec_result>>

genVars == <<task, page_context, gen_pc, messages, response, api_calls, gen_script>>

lensVars == <<image_url, search_type, lens_pc, browser, context, results,
              tabs_to_process, pending, returned, fault, alerts, disk_history,
              disk_cache, trace, fixed_page>>

twoVars == <<tasks, tally, uses>>

persistVars == <<store_pc, last>>

repeatVars == <<keeper>>

extractVars == <<extract_pc, products, extracted, calls>>

imageVars == <<attempt, driver, live, image_pc, lens_response, chrome_installed, image_call>>

procVars == <<twoVars, persistVars, repeatVars, extractVars, imageVars>>

vars == <<smartVars, execVars, genVars, lensVars, procVars>>

(***************************************************************************)
(* Bounds of the model.                                                    *)
(***************************************************************************)
\* default selectors kept per element type (the lists of constants.py are longer)
MaxDefaults == 3
\* smart_click / smart_fill calls in one behaviour
MaxCalls == 3
\* largest success_count and failure_count of a stored record that
\* get_prioritized_selectors is applied to
MaxSucc == 3
MaxFail == 7

(***************************************************************************)
(* Python values.                                                          *)
(***************************************************************************)
None == "None"
PyTrue == "True"
PyFalse == "False"
PyBool == {PyTrue, PyFalse}

\* bool(x) for the values the model passes to an if
Truthy(x) == x # None /\ x # PyFalse /\ x # ""

Range(s) == {s[k] : k \in 1..Len(s)}

\* the duplicate-free sequences over S of length at most n
RECURSIVE DistinctSeqs(_, _)
DistinctSeqs(S, n) ==
    IF n = 0 THEN {<< >>}
    ELSE LET shorter == DistinctSeqs(S, n - 1)
             longer == {p \in shorter \X S : p[2] \notin Range(p[1])}
         IN  shorter \cup {Append(p[1], p[2]) : p \in longer}

DigitChar(d) ==
    CASE d = 0 -> "0" [] d = 1 -> "1" [] d = 2 -> "2" [] d = 3 -> "3" [] d = 4 -> "4"
      [] d = 5 -> "5" [] d = 6 -> "6" [] d = 7 -> "7" [] d = 8 -> "8" [] d = 9 -> "9"

\* the code point of a character of an ISO timestamp
Ord(c) ==
    CASE c = "." -> 46
      [] c = "0" -> 48 [] c = "1" -> 49 [] c = "2" -> 50 [] c = "3" -> 51 [] c = "4" -> 52
      [] c = "5" -> 53 [] c = "6" -> 54 [] c = "7" -> 55 [] c = "8" -> 56 [] c = "9" -> 57

\* str < str of Python: lexicographic by code point, a proper prefix is smaller
RECURSIVE StrLess(_, _)
StrLess(a, b) ==
    IF a = << >> THEN b # << >>
    ELSE IF b = << >> THEN FALSE
    ELSE IF Ord(Head(a)) # Ord(Head(b)) THEN Ord(Head(a)) < Ord(Head(b))
    ELSE StrLess(Tail(a), Tail(b))

\* n as w decimal digits, zero padded
RECURSIVE ZeroPad(_, _)
ZeroPad(n, w) ==
    IF w = 0 THEN << >> ELSE Append(ZeroPad(n \div 10, w - 1), DigitChar(n % 10))

\* datetime.isoformat(): fixed-width fields, and ".ffffff" only when the
\* microsecond is not 0.  The model's clock stays within one minute, so the
\* fields before the seconds are the same in every timestamp and are left out.
IsoFormat(t) ==
    LET sec == t \div 1000000
        us  == t % 1000000
    IN  ZeroPad(sec, 2) \o (IF us = 0 THEN << >> ELSE <<".">> \o ZeroPad(us, 6))

\* the next reading of datetime.now(): half a second after the reading t
Tick(t) == t + 500000

\* instants of the wall clock used for stored timestamps: a full second,
\* one microsecond later, and the next full second
Instants == {0, 1, 1000000}

\* str(n) of a non-negative int
RECURSIVE NatStr(_)
NatStr(n) == IF n < 10 THEN DigitChar(n) ELSE NatStr(n \div 10) \o DigitChar(n % 10)

\* str(n) of an int
PyStr(n) == IF n < 0 THEN "-" \o NatStr(0 - n) ELSE NatStr(n)

(***************************************************************************)
(* constants.py                                                            *)
(***************************************************************************)
LENS_SELECTORS ==
    [url_input |->
        << "role=textbox[name=\"Paste image link\"]",
           "input[type=\"url\"]",
           "input[placeholder*=\"image\"]",
           "input[placeholder*=\"URL\"]" >>,
     search_button |->
        << "role=button[name=\"Search\"]",
           "button[type=\"submit\"]",
           "button:has-text(\"Search\")",
           "button[aria-label*=\"Search\"]" >>,
     visual_matches_tab |->
        << "role=tab[name=\"Visual matches\"]",
           "role=button[name=\"Visual matches\"]",
           "div[role=\"tab\"]:has-text(\"Visual matches\")",
           "button:has-text(\"Visual matches\")" >>,
     exact_matches_tab |->
        << "role=tab[name=\"Exact matches\"]",
           "role=button[name=\"Exact matches\"]",
           "div[role=\"tab\"]:has-text(\"Exact matches\")",
           "button:has-text(\"Exact matches\")" >>]

\* LENS_SELECTORS.get(element_type, []), cut to the first MaxDefaults selectors
LensSelectorsGet(et) ==
    IF et \in DOMAIN LENS_SELECTORS
    THEN SubSeq(LENS_SELECTORS[et], 1, MaxDefaults)
    ELSE << >>

\* the calls lens_search makes: smart_fill(page, "url_input", image_url) and
\* smart_click(page, "search_button", "Search")
CallSites == {<<"fill", "url_input">>, <<"click", "search_button">>}

(***************************************************************************)
(* SelectorLearningSystem: the selector learner                            *)
(***************************************************************************)
RECURSIVE GCD(_, _)
GCD(a, b) == IF b = 0 THEN a ELSE GCD(b, a % b)

\* the float a / b (b > 0)
Divide(a, b) == LET g == GCD(a, b) IN <<a \div g, b \div g>>

\* the float 0.0
ZeroRate == <<0, 1>>

\* the float 0.3 of `data['success_rate'] > 0.3`: the quotient 3 / 10 is
\* that same float, and no quotient of small counters lies between it and 3/10
MinSuccessRate == <<3, 10>>

RateLess(r, q) == r[1] * q[2] < q[1] * r[2]

\* position of selector in the entries of one element type, 0 when absent
IndexOf(entries, selector) ==
    IF \E k \in 1..Len(entries) : entries[k].selector = selector
    THEN CHOOSE k \in 1..Len(entries) : entries[k].selector = selector
    ELSE 0

\* the record record_selector_success creates for a new selector
\* (last_used None is the empty sequence, which no timestamp is)
NewEntry(selector) ==
    [selector |-> selector, success_count |-> 0, failure_count |-> 0,
     last_used |-> << >>, success_rate |-> ZeroRate]

\* faulty variant: both counters are increased
BumpedBoth(e, success) ==
    [e EXCEPT !.success_count = @ + 1, !.failure_count = @ + 1]

\* the counter update of record_selector_success
BumpedNoRate(e, success) ==
    IF success THEN [e EXCEPT !.success_count = @ + 1]
    ELSE [e EXCEPT !.failure_count = @ + 1]

\* faulty variant: the success_rate is left as it was
StaleRate(e) == e.success_rate

\* the success_rate record_selector_success stores
RecomputedRate(e) ==
    LET total_attempts == e.success_count + e.failure_count
    IN  IF total_attempts > 0 THEN Divide(e.success_count, total_attempts) ELSE ZeroRate

\* record_selector_success(element_type, selector, success) at clock t:
\* the new selector_success_history
RecordSelectorSuccess(h, et, selector, success, t) ==
    LET h1 == IF et \in DOMAIN h THEN h ELSE h @@ (et :> << >>)
        h2 == IF IndexOf(h1[et], selector) # 0 THEN h1
              ELSE [h1 EXCEPT ![et] = Append(@, NewEntry(selector))]
        k  == IndexOf(h2[et], selector)
        e1 == [h2[et][k] EXCEPT !.last_used = IsoFormat(t)]
        e2 == BumpedNoRate(e1, success)
        e3 == [e2 EXCEPT !.success_rate = RecomputedRate(e2)]
    IN  [h2 EXCEPT ![et][k] = e3]

\* faulty variant: the sort key is the success_rate alone
KeyLessRateOnly(a, b) == RateLess(a.success_rate, b.success_rate)

\* key(a) < key(b) for the sort key (success_rate, last_used): tuple comparison
KeyLess(a, b) ==
    \/ RateLess(a.success_rate, b.success_rate)
    \/ /\ a.success_rate = b.success_rate
       /\ StrLess(a.last_used, b.last_used)

\* sorted(..., reverse=True) is stable: x goes behind every entry that is
\* not smaller than it
InsertDesc(sorted, x) ==
    LET smaller == {k \in 1..Len(sorted) : KeyLess(sorted[k], x)}
        at == IF smaller = {} THEN Len(sorted) + 1
              ELSE CHOOSE k \in smaller : \A m \in smaller : k <= m
    IN  SubSeq(sorted, 1, at - 1) \o <<x>> \o SubSeq(sorted, at, Len(sorted))

RECURSIVE SortedDesc(_)
SortedDesc(entries) ==
    IF entries = << >> THEN << >>
    ELSE InsertDesc(SortedDesc(SubSeq(entries, 1, Len(entries) - 1)),
                    entries[Len(entries)])

\* faulty variant: >= 0.3
RateAtLeast(e) == ~RateLess(e.success_rate, MinSuccessRate)

\* faulty variant: no rate is good enough, the defaults keep their order
NoRateDecent(e) == FALSE

\* data['success_rate'] > 0.3
DecentRate(e) == RateLess(MinSuccessRate, e.success_rate)

\* learned_selectors of get_prioritized_selectors
LearnedSelectors(h, et) ==
    IF et \in DOMAIN h
    THEN LET kept == SelectSeq(SortedDesc(h[et]), DecentRate)
         IN  [k \in 1..Len(kept) |-> kept[k].selector]
    ELSE << >>

\* faulty variant: the defaults are appended unfiltered
AllDefaults(learned, defaults) == defaults

\* [s for s in default_selectors if s not in learned_selectors]
RemainingDefaults(learned, defaults) ==
    LET NotLearned(s) == s \notin Range(learned)
    IN  SelectSeq(defaults, NotLearned)

\* sorted() raises TypeError when it has to order two keys with the same
\* success_rate of which one has last_used None
PrioritizeRaises(h, et) ==
    /\ et \in DOMAIN h
    /\ \E a, b \in Range(h[et]) :
          /\ a.success_rate = b.success_rate
          /\ a.last_used # b.last_used
          /\ << >> \in {a.last_used, b.last_used}

\* get_prioritized_selectors(element_type, default_selectors)
GetPrioritizedSelectors(h, et, defaults) ==
    LET learned == LearnedSelectors(h, et)
    IN  learned \o RemainingDefaults(learned, defaults)

(***************************************************************************)
(* SelectorLearningSystem: the script cache                                *)
(***************************************************************************)
\* faulty variant: the fingerprint is left out of the key
CacheKeyTypeOnly(et, hash) == et

\* cache_key = f"{element_type}_{context_hash}"
CacheKey(et, hash) == et \o "_" \o hash

\* the entry cache_script writes
FreshEntry(script, t) ==
    [script |-> script, created_at |-> IsoFormat(t), usage_count |-> 0]

\* faulty variant: an overwrite keeps the usage_count of the entry it replaces
CacheScriptKeepCount(c, et, hash, script, t) ==
    IF CacheKey(et, hash) \in DOMAIN c
    THEN [c EXCEPT ![CacheKey(et, hash)] =
             [FreshEntry(script, t) EXCEPT !.usage_count = c[CacheKey(et, hash)].usage_count]]
    ELSE (CacheKey(et, hash) :> FreshEntry(script, t)) @@ c

\* faulty variant: cache_script rebuilds the cache around the new entry
CacheScriptOnlyLatest(c, et, hash, script, t) ==
    (CacheKey(et, hash) :> FreshEntry(script, t))

\* cache_script(element_type, context_hash, script) at clock t: the new script_cache
CacheScript(c, et, hash, script, t) ==
    (CacheKey(et, hash) :> FreshEntry(script, t)) @@ c

\* get_cached_script(element_type, context_hash): the returned value
GetCachedScriptResult(c, et, hash) ==
    IF CacheKey(et, hash) \in DOMAIN c THEN c[CacheKey(et, hash)].script ELSE None

\* the usage_count a hit leaves
HitCount(n) == n + 1

\* faulty variant: a hit counts a use for every cached script
GetCachedScriptBumpsAll(c, et, hash) ==
    IF CacheKey(et, hash) \in DOMAIN c
    THEN [key \in DOMAIN c |-> [c[key] EXCEPT !.usage_count = HitCount(@)]]
    ELSE c

\* get_cached_script(element_type, context_hash): the new script_cache
GetCachedScriptCache(c, et, hash) ==
    IF CacheKey(et, hash) \in DOMAIN c
    THEN [c EXCEPT ![CacheKey(et, hash)].usage_count = HitCount(@)]
    ELSE c

(***************************************************************************)
(* The page and the generated scripts                                      *)
(***************************************************************************)
\* markup page.content() can return; the page is live, so each read can
\* return any of them
Pages == {"<html>upload form</html>", "<html>consent dialog</html>"}

\* hash(html_context): hash("") is 0, the other values are some ints
PageHash(html) ==
    CASE html = "" -> 0
      [] html = "<html>upload form</html>" -> 5381
      [] html = "<html>consent dialog</html>" -> 0 - 77

\* get_page_html_context(page): page.content(), "" when it raises
GetPageHtmlContext(content, raises) == IF raises THEN "" ELSE content

\* what ask_agent_for_playwright_script can return ("" for an empty reply)
Scripts == {"", "async def act_a(page, *a): ...", "async def act_b(page, *a): ..."}

\* what running a script can do
ScriptRuns(script) ==
    IF script = "" THEN {"no_entry"}
    ELSE {"returns_true", "returns_false", "returns_none", "raises", "no_entry"}

\* execute_ai_script(page, script, *args): the returned value
ExecuteAiScript(script, run) ==
    CASE run = "returns_true"  -> PyTrue
      [] run = "returns_false" -> PyFalse
      [] run = "returns_none"  -> None
      [] run = "no_entry"      -> PyFalse
      [] run = "raises"        -> PyFalse

(***************************************************************************)
(* smart_click / smart_fill                                                *)
(***************************************************************************)
\* what one pass of the selector loop can do: resolve the locator and act
\* on it, or raise in get_locator_from_selector, in click/fill or in the
\* wait that follows
SelectorOutcomes == {"ok", "locator_raises", "action_raises", "wait_raises"}

\* faulty variant: the loop gives up after the first selector
LoopExhaustedEarly(k, selectors) == k > 1

\* the for loop has no selector left
LoopExhausted(k, selectors) == k > Len(selectors)

\* faulty variant: the `return True` of the loop body is missing
AfterSelectorNoReturn(outcome) == "selectors"

\* where the selector loop goes after one pass: return True, or continue
AfterSelector(outcome) == IF outcome = "ok" THEN "done" ELSE "selectors"

\* where the action goes after the cache lookup: `if cached_script:`
AfterLookup(script) == IF Truthy(script) THEN "exec_cached" ELSE "generate"

\* where the action goes after the cached script ran
AfterCachedRun(result) == IF Truthy(result) THEN "done" ELSE "generate"

\* faulty variant: strategy 3 has no try/except, the exception leaves the action
GenerationErrorEscapes == "raised"

\* where an exception of ask_agent_for_playwright_script ends: the except
\* of strategy 3 logs it and the action returns False
AfterGenerationError == "done"

\* faulty variant: the generated script is cached before its result is looked at
ShouldCacheAlways(result) == TRUE

\* whether the generated script is cached after it ran
ShouldCache(result) == Truthy(result)

\* the context_hash cache_script is given: the local of strategy 2
StoreHash(localHash, currentPage) == localHash

Event(ev, sel, key, ok) == [ev |-> ev, sel |-> sel, key |-> key, ok |-> ok]

NoOp == [key |-> "", script |-> None, hadHits |-> FALSE, lookups |-> 0]

\* smart_click(page, element_type, element_name) / smart_fill(page,
\* element_type, value) up to the for loop
StartAction(k, et) ==
    /\ pc \in {"idle", "done"}
    /\ \E humanLikeRaises \in BOOLEAN :
          \* add_human_like_behavior swallows its exception
          kind' = k
    /\ element_type' = et
    /\ default_selectors' = LensSelectorsGet(et)
    /\ prioritized' = GetPrioritizedSelectors(history, et, LensSelectorsGet(et))
    /\ i' = 1
    /\ html_context' = ""
    /\ context_hash' = ""
    /\ cached_script' = None
    /\ ai_script' = None
    /\ ret' = None
    \* get_prioritized_selectors is called outside any try
    /\ pc' = IF PrioritizeRaises(history, et) THEN "raised" ELSE "selectors"
    /\ ncalls' = ncalls + 1
    /\ log' = << >>
    /\ hist0' = history
    /\ cache0' = script_cache
    /\ UNCHANGED <<history, script_cache, now, lastStore, lastLookup>>

\* a caller starts smart_click / smart_fill
Call(k, et) ==
    /\ ncalls < MaxCalls
    /\ StartAction(k, et)
    /\ UNCHANGED <<execVars, genVars, lensVars, procVars>>

\* one pass of `for i, selector in enumerate(prioritized_selectors)`
TrySelector ==
    /\ pc = "selectors"
    /\ ~LoopExhausted(i, prioritized)
    /\ \E outcome \in SelectorOutcomes :
       LET t == Tick(now)
       IN
          /\ now' = t
          /\ history' = RecordSelectorSuccess(history, element_type, prioritized[i],
                                              outcome = "ok", t)
          /\ log' = Append(log, Event("select", prioritized[i], "", outcome = "ok"))
          /\ pc' = AfterSelector(outcome)
          /\ ret' = IF AfterSelector(outcome) = "done" THEN PyTrue ELSE ret
          /\ i' = i + 1
    /\ UNCHANGED <<script_cache, kind, element_type, default_selectors, prioritized,
                   html_context, context_hash, cached_script, ai_script, ncalls,
                   hist0, cache0, lastStore, lastLookup,
                   execVars, genVars, lensVars, procVars>>

\* strategy 2 up to `if cached_script:`
CacheTier ==
    /\ pc = "selectors"
    /\ LoopExhausted(i, prioritized)
    /\ \E content \in Pages, contentRaises \in BOOLEAN :
          LET html == GetPageHtmlContext(content, contentRaises)
              hash == PyStr(PageHash(html))
              found == GetCachedScriptResult(script_cache, element_type, hash)
          IN  /\ html_context' = html
              /\ context_hash' = hash
              /\ cached_script' = found
              /\ script_cache' = GetCachedScriptCache(script_cache, element_type, hash)
              /\ log' = Append(log, Event("lookup", "", CacheKey(element_type, hash),
                                          found # None))
              /\ lastLookup' = [key |-> CacheKey(element_type, hash), result |-> found]
              /\ lastStore' = [lastStore EXCEPT !.lookups = @ + 1]
              /\ pc' = AfterLookup(found)
    /\ UNCHANGED <<history, now, kind, element_type, default_selectors,
                   prioritized, i, ai_script, ret, ncalls, hist0, cache0,
                   execVars, genVars, lensVars, procVars>>

\* faulty variant: the run of a cached script is recorded like a selector
ExecCachedRecorded ==
    /\ pc = "exec_cached"
    /\ \E run \in ScriptRuns(cached_script) :
          LET result == ExecuteAiScript(cached_script, run)
          IN  /\ log' = Append(log, Event("exec_cached", "", "", Truthy(result)))
              /\ pc' = AfterCachedRun(result)
              /\ ret' = IF AfterCachedRun(result) = "done" THEN PyTrue ELSE ret
              /\ history' = RecordSelectorSuccess(history, element_type, "cached_script",
                                                  Truthy(result), now)
    /\ UNCHANGED <<script_cache, now, kind, element_type, default_selectors,
                   prioritized, i, html_context, context_hash, cached_script,
                   ai_script, ncalls, hist0, cache0, lastStore, lastLookup,
                   execVars, genVars, lensVars, procVars>>

\* `if await execute_ai_script(page, cached_script[, value]): return True`
ExecCached ==
    /\ pc = "exec_cached"
    /\ \E run \in ScriptRuns(cached_script) :
          LET result == ExecuteAiScript(cached_script, run)
          IN  /\ log' = Append(log, Event("exec_cached", "", "", Truthy(result)))
              /\ pc' = AfterCachedRun(result)
              /\ ret' = IF AfterCachedRun(result) = "done" THEN PyTrue ELSE ret
    /\ UNCHANGED <<history, script_cache, now, kind, element_type, default_selectors,
                   prioritized, i, html_context, context_hash, cached_script,
                   ai_script, ncalls, hist0, cache0, lastStore, lastLookup,
                   execVars, genVars, lensVars, procVars>>

\* strategy 3: ask_agent_for_playwright_script(task, html_context)
Generate ==
    /\ pc = "generate"
    /\ \/ \E script \in Scripts :
             /\ ai_script' = script
             /\ log' = Append(log, Event("generate", "", "", TRUE))
             /\ pc' = "exec_gen"
             /\ ret' = ret
       \/ \* the API call raised: Exception("AI_ERROR: ...")
          /\ ai_script' = ai_script
          /\ log' = Append(log, Event("generate", "", "", FALSE))
          /\ pc' = AfterGenerationError
          /\ ret' = IF AfterGenerationError = "done" THEN PyFalse ELSE ret
    /\ UNCHANGED <<history, script_cache, now, kind, element_type,
                   default_selectors, prioritized, i, html_context, context_hash,
                   cached_script, ncalls, hist0, cache0, lastStore, lastLookup,
                   execVars, genVars, lensVars, procVars>>

\* strategy 3: run the generated script, cache it when it worked, return
ExecGenerated ==
    /\ pc = "exec_gen"
    /\ \E run \in ScriptRuns(ai_script), content \in Pages :
          LET result == ExecuteAiScript(ai_script, run)
              t == Tick(now)
              hash == StoreHash(context_hash, PyStr(PageHash(content)))
              key == CacheKey(element_type, hash)
          IN  /\ log' = Append(log, Event("exec_gen", "", "", Truthy(result)))
              /\ IF ShouldCache(result)
                 THEN /\ now' = t
                      /\ script_cache' = CacheScript(script_cache, element_type, hash,
                                                     ai_script, t)
                      /\ lastStore' =
                            [key |-> key, script |-> ai_script,
                             hadHits |-> (key \in DOMAIN script_cache
                                          /\ script_cache[key].usage_count > 0),
                             lookups |-> 0]
                 ELSE UNCHANGED <<now, script_cache, lastStore>>
              /\ ret' = IF Truthy(result) THEN PyTrue ELSE PyFalse
              /\ pc' = "done"
    /\ UNCHANGED <<history, kind, element_type, default_selectors, prioritized, i,
                   html_context, context_hash, cached_script, ai_script, ncalls,
                   hist0, cache0, lastLookup,
                   execVars, genVars, lensVars, procVars>>

\* execute_ai_script is not running
ExecIdle ==
    /\ exec_script = [defs |-> << >>, load |-> "ok", run |-> "returns_none"]
    /\ exec_pc = "idle"
    /\ local_namespace = << >>
    /\ func_name = None
    /\ exec_result = None

\* ask_agent_for_playwright_script is not running
GenIdle ==
    /\ task = ""
    /\ page_context = None
    /\ gen_pc = "idle"
    /\ messages = << >>
    /\ response = << >>
    /\ api_calls = 0
    /\ gen_script = << >>

\* lens_search is not running; the two files do not exist
LensIdle ==
    /\ image_url = << >>
    /\ search_type = "all"
    /\ lens_pc = "idle"
    /\ browser = None
    /\ context = None
    /\ results = << >>
    /\ tabs_to_process = << >>
    /\ pending = << >>
    /\ returned = << >>
    /\ fault = << >>
    /\ alerts = << >>
    /\ disk_history = [state |-> "absent", data |-> << >>]
    /\ disk_cache = [state |-> "absent", data |-> << >>]
    /\ trace = << >>
    /\ fixed_page = << >>

\* the element types the two concurrent searches click
TwoTypes == {"search_button", "visual_matches_tab"}

\* the (element type, selector) pairs their attempts can be recorded under
TwoPairs == {<<et, LensSelectorsGet(et)[k]>> : et \in TwoTypes, k \in 1..MaxDefaults}

\* str(hash(html_context)) of the page both searches look at
TwoHash == "5381"

\* no smart_click has been called by a search
NoTask == [at |-> "idle", et |-> "", sels |-> << >>, k |-> 1, seen |-> << >>, calls |-> 0]

\* the searches the event loop runs side by side
Searches == {1, 2}

\* nothing was loaded or saved yet
NoPersist == [op |-> "", file |-> "", logged |-> "", mem |-> << >>]

\* extract_product_data and search_image are not running
RestIdle ==
    /\ extract_pc = "idle"
    /\ products = << >>
    /\ extracted = << >>
    /\ calls = << >>
    /\ attempt = 0
    /\ driver = None
    /\ live = {}
    /\ image_pc = "idle"
    /\ lens_response = << >>
    /\ chrome_installed = TRUE
    /\ image_call = << >>

\* no concurrent searches, and the process is not followed
ProcIdle ==
    /\ tasks = [t \in Searches |-> NoTask]
    /\ tally = [pair \in TwoPairs |-> [ok |-> 0, failed |-> 0]]
    /\ uses = [et \in TwoTypes |-> 0]
    /\ store_pc = "off"
    /\ last = NoPersist
    /\ keeper = ""
    /\ RestIdle

\* no smart_click / smart_fill is running
NoAction ==
    /\ pc = "idle"
    /\ kind = "click"
    /\ element_type = ""
    /\ default_selectors = << >>
    /\ prioritized = << >>
    /\ i = 1
    /\ html_context = ""
    /\ context_hash = ""
    /\ cached_script = None
    /\ ai_script = None
    /\ ret = None
    /\ ncalls = 0
    /\ log = << >>
    /\ hist0 = << >>
    /\ cache0 = << >>
    /\ lastStore = NoOp
    /\ lastLookup = [key |-> "", result |-> None]

\* learning_system after construction without files, no action running
SmartIdle ==
    /\ history = << >>
    /\ script_cache = << >>
    /\ now = 0
    /\ NoAction

Init ==
    /\ ProcIdle
    /\ SmartIdle
    /\ ExecIdle
    /\ GenIdle
    /\ LensIdle

Next ==
    \/ \E site \in CallSites : Call(site[1], site[2])
    \/ TrySelector
    \/ CacheTier
    \/ ExecCached
    \/ Generate
    \/ ExecGenerated

Spec == Init /\ [][Next]_vars

(***************************************************************************)
(* get_prioritized_selectors applied to stores record_selector_success can *)
(* leave                                                                   *)
(***************************************************************************)
\* the record of a selector after s successes and f failures, the last at t
MadeEntry(selector, s, f, t) ==
    LET e == [NewEntry(selector) EXCEPT !.success_count = s, !.failure_count = f,
                                        !.last_used = IsoFormat(t)]
    IN  [e EXCEPT !.success_rate = RecomputedRate(e)]

\* the selectors of "url_input" the stores and the defaults are made of
PrioSelectors == Range(SubSeq(LENS_SELECTORS.url_input, 1, 3))
StoredSelectors == Range(SubSeq(LENS_SELECTORS.url_input, 1, 2))

\* the records a selector can have: at least one attempt
EntryChoices(selector) ==
    {MadeEntry(selector, c[1], c[2], t) :
        c \in {c \in (0..MaxSucc) \X (0..MaxFail) : c[1] + c[2] > 0}, t \in Instants}

\* the records of "url_input", in the order they were created
EntrySeqs ==
    UNION {
        IF Len(q) = 0 THEN {<< >>}
        ELSE IF Len(q) = 1 THEN {<<e>> : e \in EntryChoices(q[1])}
        ELSE {<<e, g>> : e \in EntryChoices(q[1]), g \in EntryChoices(q[2])}
        : q \in DistinctSeqs(StoredSelectors, 2)}

\* the store: "search_button" has one well-rated record, "url_input" has
\* the given records and is absent without any
PrioStore(entries) ==
    LET other == ("search_button" :>
                     <<MadeEntry(LENS_SELECTORS.search_button[1], 1, 0, 0)>>)
    IN  IF entries = << >> THEN other ELSE other @@ ("url_input" :> entries)

InitPrio ==
    /\ ProcIdle
    /\ \E entries \in EntrySeqs : history = PrioStore(entries)
    /\ default_selectors \in DistinctSeqs(PrioSelectors, Cardinality(PrioSelectors))
    /\ element_type = "url_input"
    /\ script_cache = << >>
    /\ now = 0
    /\ pc = "idle"
    /\ kind = "fill"
    /\ prioritized = << >>
    /\ i = 1
    /\ html_context = ""
    /\ context_hash = ""
    /\ cached_script = None
    /\ ai_script = None
    /\ ret = None
    /\ ncalls = 0
    /\ log = << >>
    /\ hist0 = << >>
    /\ cache0 = << >>
    /\ lastStore = NoOp
    /\ lastLookup = [key |-> "", result |-> None]
    /\ ExecIdle
    /\ GenIdle
    /\ LensIdle

\* learning_system.get_prioritized_selectors(element_type, default_selectors)
Prioritize ==
    /\ pc = "idle"
    /\ prioritized' = GetPrioritizedSelectors(history, element_type, default_selectors)
    /\ pc' = IF PrioritizeRaises(history, element_type) THEN "raised" ELSE "prioritized"
    /\ hist0' = history
    /\ UNCHANGED <<history, script_cache, now, kind, element_type, default_selectors,
                   i, html_context, context_hash, cached_script, ai_script, ret,
                   ncalls, log, cache0, lastStore, lastLookup,
                   execVars, genVars, lensVars, procVars>>

NextPrio == Prioritize

SpecPrio == InitPrio /\ [][NextPrio]_vars

(***************************************************************************)
(* execute_ai_script                                                       *)
(***************************************************************************)
\* top-level definitions of one script
MaxDefs == 2

\* the names a script binds at its top level; "page" is also the name the
\* namespace holds the page under
ScriptNames == {"page", "helper", "act"}

\* what a script binds a name to: a coroutine function or a plain function
DefKinds == {"async", "sync"}

\* the top-level definitions of a script, in the order they are executed
ScriptDefs ==
    UNION {{[k \in 1..Len(q) |-> [name |-> q[k], kind |-> kinds[k]]] :
               kinds \in [1..Len(q) -> DefKinds]} :
           q \in DistinctSeqs(ScriptNames, MaxDefs)}

\* what exec(script, ...) does: run the text to its end, or raise an
\* Exception (SyntaxError, NameError, ...)
Loads == {"ok", "raises"}

\* what awaiting the entry function does: return a value, raise an
\* Exception, raise outside Exception (SystemExit, asyncio.CancelledError),
\* or never finish
Awaits == {"returns_true", "returns_false", "returns_none", "raises", "raises_base",
           "hangs"}

ExecScripts == [defs : ScriptDefs, load : Loads, run : Awaits]

\* local_namespace before exec
BaseNamespace ==
    << [name |-> "page", kind |-> "object"], [name |-> "logger", kind |-> "object"],
       [name |-> "asyncio", kind |-> "module"], [name |-> "args", kind |-> "object"] >>

\* ns[d.name] = d: a dict keeps the position of a key that is assigned again
Bind(ns, d) ==
    IF \E k \in 1..Len(ns) : ns[k].name = d.name
    THEN [k \in 1..Len(ns) |-> IF ns[k].name = d.name THEN d ELSE ns[k]]
    ELSE Append(ns, d)

\* local_namespace after exec bound the definitions
RECURSIVE ExecNamespace(_, _)
ExecNamespace(ns, defs) ==
    IF defs = << >> THEN ns
    ELSE ExecNamespace(Bind(ns, Head(defs)), Tail(defs))

\* func_name after the for loop: the first coroutine function not named page
FirstCoroutine(ns) ==
    LET hits == {k \in 1..Len(ns) : ns[k].kind = "async" /\ ns[k].name # "page"}
    IN  IF hits = {} THEN None
        ELSE ns[CHOOSE k \in hits : \A j \in hits : k <= j].name

\* execute_ai_script up to `await local_namespace[func_name](page, *args)`
ExecLoad ==
    /\ exec_pc = "start"
    /\ IF exec_script.load = "raises"
       THEN \* except Exception: return False
            /\ local_namespace' = BaseNamespace
            /\ func_name' = None
            /\ exec_result' = ExecuteAiScript(exec_script, "raises")
            /\ exec_pc' = "returned"
       ELSE LET ns == ExecNamespace(BaseNamespace, exec_script.defs)
            IN  /\ local_namespace' = ns
                /\ func_name' = FirstCoroutine(ns)
                /\ IF FirstCoroutine(ns) = None
                   THEN /\ exec_result' = ExecuteAiScript(exec_script, "no_entry")
                        /\ exec_pc' = "returned"
                   ELSE /\ exec_result' = exec_result
                        /\ exec_pc' = "awaiting"
    /\ UNCHANGED <<exec_script, smartVars, genVars, lensVars, procVars>>

\* the awaited entry function finishes: `return result`, or the except.
\* Nothing bounds the await: a function that never finishes leaves
\* execute_ai_script waiting.
ExecAwait ==
    /\ exec_pc = "awaiting"
    /\ exec_script.run # "hangs"
    /\ IF exec_script.run = "raises_base"
       THEN /\ exec_pc' = "raised"
            /\ exec_result' = exec_result
       ELSE /\ exec_pc' = "returned"
            /\ exec_result' = ExecuteAiScript(exec_script, exec_script.run)
    /\ UNCHANGED <<exec_script, local_namespace, func_name, smartVars, genVars, lensVars, procVars>>

InitExec ==
    /\ ProcIdle
    /\ exec_script \in ExecScripts
    /\ exec_pc = "start"
    /\ local_namespace = << >>
    /\ func_name = None
    /\ exec_result = None
    /\ SmartIdle
    /\ GenIdle
    /\ LensIdle

NextExec ==
    \/ ExecLoad
    \/ ExecAwait

SpecExec == InitExec /\ [][NextExec]_vars

(***************************************************************************)
(* ask_agent_for_playwright_script                                         *)
(*                                                                         *)
(* The text of a reply is a sequence of tokens: the fence ```, the word    *)
(* python, a blank, and a word of code. `"```python" in script` is a fence *)
(* directly followed by the word python.                                   *)
(***************************************************************************)
\* tokens of one reply
MaxReply == 4

\* the three backticks that open or close a code block
Fence == "<fence>"

Blank == " "

ReplyTokens == {Fence, "python", Blank, "code"}

ReplyTexts == UNION {[1..n -> ReplyTokens] : n \in 0..MaxReply}

\* what client.chat.completions.create does: raise (APIError, timeout, ...),
\* answer without text (choices[0].message.content is None), or answer
\* with a text
ApiAnswers ==
    {[kind |-> "error", content |-> << >>], [kind |-> "no_content", content |-> << >>]}
        \cup {[kind |-> "text", content |-> c] : c \in ReplyTexts}

\* str.strip()
RECURSIVE Strip(_)
Strip(text) ==
    IF text = << >> THEN text
    ELSE IF Head(text) = Blank THEN Strip(Tail(text))
    ELSE IF text[Len(text)] = Blank THEN Strip(SubSeq(text, 1, Len(text) - 1))
    ELSE text

\* `"```python" in text`
HasPythonFence(text) ==
    \E k \in 1..(Len(text) - 1) : text[k] = Fence /\ text[k + 1] = "python"

\* `"```" in text`
HasFence(text) == \E k \in 1..Len(text) : text[k] = Fence

\* text.split("```")[0]
BeforeFence(text) ==
    IF HasFence(text)
    THEN SubSeq(text, 1, (CHOOSE k \in 1..Len(text) :
                             text[k] = Fence /\ \A j \in 1..(k - 1) : text[j] # Fence) - 1)
    ELSE text

\* text.split("```python")[1] of a text with that fence
AfterPythonFence(text) ==
    LET p == CHOOSE k \in 1..(Len(text) - 1) :
                /\ text[k] = Fence /\ text[k + 1] = "python"
                /\ \A j \in 1..(k - 1) : ~(text[j] = Fence /\ text[j + 1] = "python")
    IN  SubSeq(text, p + 2, Len(text))

\* text.split("```")[1] of a text with a fence
AfterFence(text) ==
    LET p == CHOOSE k \in 1..Len(text) :
                text[k] = Fence /\ \A j \in 1..(k - 1) : text[j] # Fence
    IN  BeforeFence(SubSeq(text, p + 1, Len(text)))

\* the script extracted from response.choices[0].message.content
ExtractScript(content) ==
    LET text == Strip(content)
    IN  IF HasPythonFence(text) THEN Strip(BeforeFence(AfterPythonFence(text)))
        ELSE IF HasFence(text) THEN Strip(AfterFence(text))
        ELSE text

\* faulty variant: a failed request is sent a second time
RequestsWithRetry(answer) == IF answer.kind = "error" THEN 2 ELSE 1

\* the client.chat.completions.create calls of one
\* ask_agent_for_playwright_script
RequestsFor(answer) == 1

\* the prompts smart_click and smart_fill pass as task
Tasks == {"SMART_CLICK_PROMPT", "SMART_FILL_PROMPT"}

\* messages: SYSTEM_PROMPT, the task and, `if page_context:`, the context
\* (page_context[:6000]; the pages here are shorter)
BuildMessages(t, ctx) ==
    LET base == << [role |-> "system", content |-> "SYSTEM_PROMPT"],
                   [role |-> "user", content |-> t] >>
    IN  IF ctx # None /\ ctx # ""
        THEN Append(base, [role |-> "user", content |-> "Page HTML context: " \o ctx])
        ELSE base

\* ask_agent_for_playwright_script(task, page_context): it has no await,
\* so it runs in one piece
AskAgent ==
    /\ gen_pc = "start"
    /\ messages' = BuildMessages(task, page_context)
    /\ \E answer \in ApiAnswers :
          /\ response' = <<answer>>
          /\ api_calls' = api_calls + RequestsFor(answer)
          /\ IF answer.kind = "text"
             THEN /\ gen_script' = <<ExtractScript(answer.content)>>
                  /\ gen_pc' = "returned"
             ELSE \* raise Exception(f"AI_ERROR: {e}")
                  /\ gen_script' = gen_script
                  /\ gen_pc' = "raised"
    /\ UNCHANGED <<task, page_context, smartVars, execVars, lensVars, procVars>>

InitGen ==
    /\ ProcIdle
    /\ task \in Tasks
    /\ page_context \in {None, ""} \cup Pages
    /\ gen_pc = "start"
    /\ messages = << >>
    /\ response = << >>
    /\ api_calls = 0
    /\ gen_script = << >>
    /\ SmartIdle
    /\ ExecIdle
    /\ LensIdle

NextGen == AskAgent

SpecGen == InitGen /\ [][NextGen]_vars

(***************************************************************************)
(* lens_search                                                             *)
(*                                                                         *)
(* image_url is a sequence of characters. The text of a page and the       *)
(* message of an exception are sequences of fragments; `x in text.lower()` *)
(* is: some fragment, lowered, is x. The message of an outcome is a        *)
(* sequence of fragments too. pending, returned and fault hold at most one *)
(* value: << >> is no value.                                               *)
(***************************************************************************)
\* smart_click / smart_fill calls of one search
MaxLensCalls == 2

\* external links a page shows
MaxLinks == 2

StatusCode ==
    [SUCCESS |-> 200, NO_MATCHES |-> 404, RATE_LIMITED |-> 429, IP_BLOCKED |-> 403,
     TIMEOUT |-> 408, INVALID_URL |-> 400, SERVER_ERROR |-> 500, NETWORK_ERROR |-> 502,
     PROXY_ERROR |-> 503, AI_ERROR |-> 507, UNKNOWN_ERROR |-> 520]

HttpPrefix == <<"h", "t", "t", "p", ":", "/", "/">>

HttpsPrefix == <<"h", "t", "t", "p", "s", ":", "/", "/">>

\* the image_url arguments: "", "not-a-url", "ftp://i", "HTTP://i", "http:/",
\* "http://i", "https://i"
ImageUrls ==
    { << >>,
      <<"n", "o", "t", "-", "a", "-", "u", "r", "l">>,
      <<"f", "t", "p", ":", "/", "/", "i">>,
      <<"H", "T", "T", "P", ":", "/", "/", "i">>,
      <<"h", "t", "t", "p", ":", "/">>,
      HttpPrefix \o <<"i">>,
      HttpsPrefix \o <<"i">> }

\* the search_type arguments
SearchTypes == {"all", "visual_matches", "exact_matches", "both", "images"}

\* the clock after n reads
RECURSIVE Ticks(_)
Ticks(n) == IF n = 0 THEN 0 ELSE Tick(Ticks(n - 1))

\* SELECTOR_HISTORY after a smart_fill whose first n selectors failed
RECURSIVE FailedFill(_)
FailedFill(n) ==
    IF n = 0 THEN << >>
    ELSE RecordSelectorSuccess(FailedFill(n - 1), "url_input",
                               LensSelectorsGet("url_input")[n], FALSE, Ticks(n))

\* the stores of the process at the call: those of a new process, or those
\* an earlier search left, whose smart_fill ran out of selectors on the
\* upload form and cached the script it generated
ColdStores == [history |-> << >>, script_cache |-> << >>, now |-> 0]

WarmStores ==
    LET n == Len(LensSelectorsGet("url_input"))
    IN  [history |-> FailedFill(n),
         script_cache |-> CacheScript(<< >>, "url_input", PyStr(PageHash("<html>upload form</html>")),
                                      "async def act_a(page, *a): ...", Ticks(n + 1)),
         now |-> Ticks(n + 1)]

\* the calls of lens_search: every image_url with search_type "all", one
\* well-formed image_url with every search_type, and one call of a process
\* that has searched before
LensCalls ==
    {[url |-> u, type |-> "all", stores |-> ColdStores] : u \in ImageUrls}
    \cup {[url |-> HttpsPrefix \o <<"i">>, type |-> t, stores |-> ColdStores] :
              t \in SearchTypes}
    \cup {[url |-> HttpsPrefix \o <<"i">>, type |-> "all", stores |-> WarmStores]}

\* str.startswith(prefix)
StartsWith(text, prefix) ==
    Len(text) >= Len(prefix) /\ SubSeq(text, 1, Len(prefix)) = prefix

\* faulty variant: only the scheme name is looked at
InvalidWithoutHttp(url) == url = << >> \/ ~StartsWith(url, <<"h", "t", "t", "p">>)

\* `not image_url or not image_url.startswith(('http://', 'https://'))`
InvalidImageUrl(url) ==
    url = << >> \/ ~(StartsWith(url, HttpPrefix) \/ StartsWith(url, HttpsPrefix))

\* str.lower() of a fragment
Lower(text) ==
    CASE text = "Unusual Traffic" -> "unusual traffic"
      [] text = "CAPTCHA" -> "captcha"
      [] text = "No matches for your search" -> "no matches for your search"
      [] text = "No results found" -> "no results found"
      [] text = "No matches found" -> "no matches found"
      [] text = "NETWORK" -> "network"
      [] text = "Visual matches" -> "visual matches"
      [] text = "Timeout" -> "timeout"
      [] text = "Target" -> "target"
      [] OTHER -> text

\* `x in text.lower()`
LowerContains(text, x) == \E k \in 1..Len(text) : Lower(text[k]) = x

\* `x in text`
Contains(text, x) == \E k \in 1..Len(text) : text[k] = x

\* what page.content() can return during a search
LensPages ==
    { <<"Visual matches", "shop.example">>,
      <<"Our systems have detected", "Unusual Traffic">>,
      <<"re", "CAPTCHA">>,
      <<"No matches for your search">>,
      <<"Visual matches", "try", "better results">> }

\* `"unusual traffic" in page_content.lower() or "captcha" in page_content.lower()`
IsBlocked(content) ==
    LowerContains(content, "unusual traffic") \/ LowerContains(content, "captcha")

no_matches_phrases ==
    << "No matches for your search", "No results found", "No matches found",
       "try changing the search area", "sending a different image", "better results",
       "different image" >>

\* `phrase.lower() in page_content.lower()` for some phrase
HasNoMatchesPhrase(content) ==
    \E k \in 1..Len(no_matches_phrases) :
        LowerContains(content, Lower(no_matches_phrases[k]))

\* faulty variant: two links are still too few
FewLinksOrTwo(n) == n <= 2

\* `external_links <= 1`
FewLinks(n) == n <= 1

\* faulty variant: the phrase and the link count must agree
CheckNeedsBoth(waitRaises, contentRaises, content, countRaises, n) ==
    ~waitRaises /\ ~contentRaises /\ HasNoMatchesPhrase(content)
                /\ ~countRaises /\ FewLinks(n)

\* check_for_no_matches(page). Every pass of the selector loop raises
\* (`await page.locator(selector).first` awaits a Locator) and goes on, so
\* the loop never returns; the page text and the link count decide.
CheckForNoMatches(waitRaises, contentRaises, content, countRaises, n) ==
    IF waitRaises THEN FALSE
    ELSE IF ~contentRaises /\ HasNoMatchesPhrase(content) THEN TRUE
    ELSE IF ~countRaises /\ FewLinks(n) THEN TRUE
    ELSE FALSE

\* the exceptions an awaited browser operation raises
Faults ==
    { [type |-> "asyncio.TimeoutError", msg |-> << >>],
      [type |-> "playwright.Error", msg |-> <<"net::ERR_", "NETWORK", "_CHANGED">>],
      [type |-> "playwright.TimeoutError", msg |-> <<"Timeout", "30000ms", "exceeded">>] }

\* the value of a return statement
Outcome(code, message, result, total, status) ==
    [status_code |-> code, message |-> message, result |-> result,
     total_results |-> total, status |-> status]

\* an entry of a result mapping whose value is a list of links
ListEntry(key, links) == [key |-> key, links |-> links, text |-> None]

\* an entry of a result mapping whose value is a string
TextEntry(key, text) == [key |-> key, links |-> << >>, text |-> text]

\* "result" of the no-matches outcome
NoMatchesResult == <<TextEntry("message", "No matches found for your search")>>

\* the except clauses of lens_search: the alert sent and the value returned
Classify(f) ==
    IF f.type = "asyncio.TimeoutError"
    THEN [alert |-> "TIMEOUT ERROR",
          out |-> Outcome(StatusCode.TIMEOUT, <<"Operation timeout">>, << >>, 0, "timeout")]
    ELSE IF Contains(f.msg, "AI_ERROR")
    THEN [alert |-> "AI ERROR",
          out |-> Outcome(StatusCode.AI_ERROR, <<"AI script generation failed: ">> \o f.msg, << >>, 0,
                          "ai_error")]
    ELSE IF LowerContains(f.msg, "network")
    THEN [alert |-> "NETWORK ERROR",
          out |-> Outcome(StatusCode.NETWORK_ERROR, <<"Network error: ">> \o f.msg, << >>, 0,
                          "network_error")]
    ELSE [alert |-> "UNKNOWN ERROR",
          out |-> Outcome(StatusCode.UNKNOWN_ERROR, <<"Unknown error: ">> \o f.msg, << >>, 0,
                          "unknown_error")]

\* faulty variant: the blocked page is reported as an IP block
RateLimitedAsIpBlocked ==
    Outcome(StatusCode.IP_BLOCKED, <<"Rate limited or IP blocked by Google">>, << >>, 0,
            "rate_limited")

\* the value returned when the page of the search shows a blocking marker
RateLimited ==
    Outcome(StatusCode.RATE_LIMITED, <<"Rate limited or IP blocked by Google">>, << >>, 0,
            "rate_limited")

\* faulty variant: the manual flow is run whatever the direct navigation did
AfterDirectAlwaysManual(ok) == "manual_goto"

\* the inner try/except: the manual flow is the except clause
AfterDirect(ok) == IF ok THEN "recheck" ELSE "manual_goto"

\* what send_custom_msg does with a message: it returns a string in every
\* case
Deliveries == {"Notified!", "Slack configuration missing."}

\* faulty variant: for "both" the exact matches come first
TabsForExactFirst(st) ==
    CASE st = "both" -> << <<"exact_matches_tab", "Exact matches">>,
                           <<"visual_matches_tab", "Visual matches">> >>
      [] st = "visual_matches" -> << <<"visual_matches_tab", "Visual matches">> >>
      [] st = "exact_matches" -> << <<"exact_matches_tab", "Exact matches">> >>
      [] st = "all" -> << <<"current_page", "All">> >>
      [] OTHER -> << >>

\* tabs_to_process for a search_type; << >> stands for the else branch
TabsFor(st) ==
    CASE st = "both" -> << <<"visual_matches_tab", "Visual matches">>,
                           <<"exact_matches_tab", "Exact matches">> >>
      [] st = "visual_matches" -> << <<"visual_matches_tab", "Visual matches">> >>
      [] st = "exact_matches" -> << <<"exact_matches_tab", "Exact matches">> >>
      [] st = "all" -> << <<"current_page", "All">> >>
      [] OTHER -> << >>

\* tab_name.lower().replace(' ', '_')
KeyName(tab_name) ==
    CASE tab_name = "Visual matches" -> "visual_matches"
      [] tab_name = "Exact matches" -> "exact_matches"
      [] tab_name = "All" -> "all"

\* results[key] = links
SetResult(res, key, links) ==
    IF \E k \in 1..Len(res) : res[k].key = key
    THEN [k \in 1..Len(res) |-> IF res[k].key = key THEN ListEntry(key, links) ELSE res[k]]
    ELSE Append(res, ListEntry(key, links))

\* faulty variant: the categories are counted, not their links
TotalResultsCountsKeys(res) == Len(res)

\* sum(len(links) for links in results.values())
RECURSIVE TotalResults(_)
TotalResults(res) ==
    IF res = << >> THEN 0 ELSE Len(Head(res).links) + TotalResults(Tail(res))

\* the n links a page shows, in document order
Links(n) == [k \in 1..n |-> "https://shop.example/item" \o NatStr(k)]

\* extract_product_data(page, tab_name): nothing when the page is a
\* no-matches page, the links of extract_with_predefined_selectors when
\* there are any, else those of extract_with_ai
ExtractProductData(noMatches, predefined, generated) ==
    IF noMatches THEN << >>
    ELSE IF predefined # << >> THEN predefined
    ELSE generated

\* what writing a store to its file can do: write it, or fail at open()
\* and leave the file alone; the exception is logged
SaveOutcomes == {"written", "untouched"}

\* the file after save_learning_data / save_script_cache
Saved(file, store, how) ==
    CASE how = "written" -> [state |-> "written", data |-> store]
      [] how = "untouched" -> file

\* the exception a close() raises
CloseFaults == {[type |-> "playwright.Error", msg |-> <<"Connection", "closed">>]}

\* smart_click / smart_fill has returned: its locals are gone
SmartReturned ==
    /\ pc' = "idle"
    /\ kind' = "click"
    /\ element_type' = ""
    /\ default_selectors' = << >>
    /\ prioritized' = << >>
    /\ i' = 1
    /\ html_context' = ""
    /\ context_hash' = ""
    /\ cached_script' = None
    /\ ai_script' = None
    /\ ret' = None
    /\ log' = << >>
    /\ hist0' = << >>
    /\ cache0' = << >>
    /\ lastStore' = NoOp
    /\ lastLookup' = [key |-> "", result |-> None]
    /\ UNCHANGED <<history, script_cache, now, ncalls>>

\* the generation call of the action that has just ended raised AI_ERROR
GenerationFailed ==
    IF \E k \in 1..Len(log) : log[k].ev = "generate" /\ ~log[k].ok
    THEN "AI_ERROR" ELSE ""

\* what page.content() returns now: any page, or the fixed one
PageReads == IF fixed_page = << >> THEN LensPages ELSE {fixed_page[1].text}

\* how many external links the page shows now
LinkCounts == IF fixed_page = << >> THEN 0..MaxLinks ELSE {fixed_page[1].links}

\* the exceptions an awaited browser operation can raise now: none on a
\* fixed page
Raised == IF fixed_page = << >> THEN Faults ELSE {}

\* whether a read of the page can raise now
ReadRaises == IF fixed_page = << >> THEN BOOLEAN ELSE {FALSE}

Step(op, ok, seen, tab) == [op |-> op, ok |-> ok, seen |-> seen, tab |-> tab]

lensArgs == <<image_url, search_type, fixed_page>>

lensDisk == <<disk_history, disk_cache>>

\* the code goes on to its next awaited operation
GoOn(next, ev) ==
    /\ lens_pc' = next
    /\ trace' = Append(trace, ev)
    /\ UNCHANGED pending

\* a return statement inside the try: the finally clause runs before the
\* value is handed to the caller
Return(out, ev) ==
    /\ pending' = <<out>>
    /\ lens_pc' = "finally"
    /\ trace' = Append(trace, ev)

\* send_custom_msg(f"... {label}: ...") with the string it returns
Alert(label, reply) ==
    alerts' = Append(alerts, [label |-> label, reply |-> reply])

\* a variant in which an alert that was not delivered turns the outcome into
\* an unknown error
AfterAlertFailing(reply, out) ==
    IF reply = "Notified!" THEN out
    ELSE [out EXCEPT !.status_code = StatusCode.UNKNOWN_ERROR, !.status = "error"]

\* the outcome returned after the alert: the string send_custom_msg
\* returns is dropped, and send_custom_msg catches what its delivery raises
AfterAlert(reply, out) == out

\* an awaited operation raises f inside the try: the except clause that
\* matches f sends its alert and returns its outcome
Caught(f, op) ==
    \E reply \in Deliveries :
       /\ Alert(Classify(f).alert, reply)
       /\ Return(AfterAlert(reply, Classify(f).out), Step(op, FALSE, "raised", ""))

\* the outcome of a call whose image_url is rejected
InvalidUrl ==
    Outcome(StatusCode.INVALID_URL, <<"Invalid image URL provided">>, << >>, 0, "error")

\* the validation of image_url; a rejected call returns before the try
LensValidate ==
    /\ lens_pc = "start"
    /\ IF InvalidImageUrl(image_url)
       THEN \E reply \in Deliveries :
               /\ Alert("INVALID URL ERROR", reply)
               /\ returned' = <<AfterAlert(reply, InvalidUrl)>>
               /\ lens_pc' = "returned"
               /\ trace' = Append(trace, Step("validate", FALSE, "", ""))
       ELSE /\ lens_pc' = "playwright"
            /\ trace' = Append(trace, Step("validate", TRUE, "", ""))
            /\ UNCHANGED <<alerts, returned>>
    /\ UNCHANGED <<lensArgs, browser, context, results, tabs_to_process, pending, fault,
                   lensDisk, smartVars, execVars, genVars, procVars>>

\* `async with async_playwright() as p:`, outside the try
LensStartPlaywright ==
    /\ lens_pc = "playwright"
    /\ \/ /\ GoOn("launch", Step("playwright", TRUE, "", ""))
          /\ UNCHANGED fault
       \/ \E f \in Raised :
             /\ fault' = <<f>>
             /\ lens_pc' = "escaped"
             /\ trace' = Append(trace, Step("playwright", FALSE, "raised", ""))
             /\ UNCHANGED pending
    /\ UNCHANGED <<lensArgs, browser, context, results, tabs_to_process, returned, alerts,
                   lensDisk, smartVars, execVars, genVars, procVars>>

\* browser = await p.chromium.launch(...)
LensLaunch ==
    /\ lens_pc = "launch"
    /\ \/ /\ browser' = "open"
          /\ GoOn("new_context", Step("launch", TRUE, "", ""))
          /\ UNCHANGED alerts
       \/ \E f \in Raised :
             /\ Caught(f, "launch")
             /\ UNCHANGED browser
    /\ UNCHANGED <<lensArgs, context, results, tabs_to_process, returned, fault,
                   lensDisk, smartVars, execVars, genVars, procVars>>

\* context = await browser.new_context(...)
LensNewContext ==
    /\ lens_pc = "new_context"
    /\ \/ /\ context' = "open"
          /\ GoOn("new_page", Step("new_context", TRUE, "", ""))
          /\ UNCHANGED alerts
       \/ \E f \in Raised :
             /\ Caught(f, "new_context")
             /\ UNCHANGED context
    /\ UNCHANGED <<lensArgs, browser, results, tabs_to_process, returned, fault,
                   lensDisk, smartVars, execVars, genVars, procVars>>

\* page = await context.new_page()
LensNewPage ==
    /\ lens_pc = "new_page"
    /\ \/ /\ GoOn("direct", Step("new_page", TRUE, "", ""))
          /\ UNCHANGED alerts
       \/ \E f \in Raised : Caught(f, "new_page")
    /\ UNCHANGED <<lensArgs, browser, context, results, tabs_to_process, returned, fault,
                   lensDisk, smartVars, execVars, genVars, procVars>>

\* the inner try: goto(direct_lens_url), the wait, page.content() and the
\* test for the blocking markers; `except Exception` starts the manual flow
LensDirect ==
    /\ lens_pc = "direct"
    /\ \/ \E content \in PageReads :
             IF IsBlocked(content)
             THEN \* raise Exception("Direct navigation blocked")
                  GoOn(AfterDirect(FALSE), Step("direct", FALSE, "blocked", ""))
             ELSE GoOn(AfterDirect(TRUE), Step("direct", TRUE, "clear", ""))
       \/ \E f \in Raised : GoOn(AfterDirect(FALSE), Step("direct", FALSE, "raised", ""))
    /\ UNCHANGED <<lensArgs, browser, context, results, tabs_to_process, returned, fault,
                   alerts, lensDisk, smartVars, execVars, genVars, procVars>>

\* the manual flow: goto(LENS_URL) and the wait, inside the except clause
\* of the inner try
LensManualGoto ==
    /\ lens_pc = "manual_goto"
    /\ \/ /\ GoOn("fill", Step("manual_goto", TRUE, "", ""))
          /\ UNCHANGED alerts
       \/ \E f \in Raised : Caught(f, "manual_goto")
    /\ UNCHANGED <<lensArgs, browser, context, results, tabs_to_process, returned, fault,
                   lensDisk, smartVars, execVars, genVars, procVars>>

\* `await smart_fill(page, "url_input", image_url)` starts
LensFill ==
    /\ lens_pc = "fill"
    /\ ncalls < MaxLensCalls
    /\ StartAction("fill", "url_input")
    /\ GoOn("filling", Step("fill", TRUE, "", ""))
    /\ UNCHANGED <<lensArgs, browser, context, results, tabs_to_process, returned, fault,
                   alerts, lensDisk, execVars, genVars, procVars>>

\* smart_fill returned: `if not ...: return` the 500 outcome
LensAfterFill ==
    /\ lens_pc = "filling"
    /\ pc = "done"
    /\ IF Truthy(ret)
       THEN GoOn("click", Step("fill_done", TRUE, GenerationFailed, ""))
       ELSE Return(Outcome(StatusCode.SERVER_ERROR, <<"Failed to fill URL input field">>,
                           << >>, 0, "error"),
                   Step("fill_done", FALSE, GenerationFailed, ""))
    /\ SmartReturned
    /\ UNCHANGED <<lensArgs, browser, context, results, tabs_to_process, returned, fault,
                   alerts, lensDisk, execVars, genVars, procVars>>

\* `await smart_click(page, "search_button", "Search")` starts
LensClick ==
    /\ lens_pc = "click"
    /\ ncalls < MaxLensCalls
    /\ StartAction("click", "search_button")
    /\ GoOn("clicking", Step("click", TRUE, "", ""))
    /\ UNCHANGED <<lensArgs, browser, context, results, tabs_to_process, returned, fault,
                   alerts, lensDisk, execVars, genVars, procVars>>

\* faulty variant: the result of the click is not looked at
LensAfterClickGoesOn ==
    /\ lens_pc = "clicking"
    /\ pc = "done"
    /\ GoOn("wait_results", Step("click_done", Truthy(ret), GenerationFailed, ""))
    /\ SmartReturned
    /\ UNCHANGED <<lensArgs, browser, context, results, tabs_to_process, returned, fault,
                   alerts, lensDisk, execVars, genVars, procVars>>

\* smart_click returned: `if not ...: return` the 500 outcome
LensAfterClick ==
    /\ lens_pc = "clicking"
    /\ pc = "done"
    /\ IF Truthy(ret)
       THEN GoOn("wait_results", Step("click_done", TRUE, GenerationFailed, ""))
       ELSE Return(Outcome(StatusCode.SERVER_ERROR, <<"Failed to click search button">>,
                           << >>, 0, "error"),
                   Step("click_done", FALSE, GenerationFailed, ""))
    /\ SmartReturned
    /\ UNCHANGED <<lensArgs, browser, context, results, tabs_to_process, returned, fault,
                   alerts, lensDisk, execVars, genVars, procVars>>

\* faulty variant: a wait that times out ends the search
LensWaitResultsEnds ==
    /\ lens_pc = "wait_results"
    /\ \/ GoOn("recheck", Step("wait_results", TRUE, "", ""))
       \/ Return(Outcome(StatusCode.TIMEOUT, <<"Results timeout">>, << >>, 0, "timeout"),
                 Step("wait_results", FALSE, "", ""))
    /\ UNCHANGED <<lensArgs, browser, context, results, tabs_to_process, returned, fault,
                   alerts, lensDisk, smartVars, execVars, genVars, procVars>>

\* `if not await wait_for_results(page):` only sets error_msg
LensWaitResults ==
    /\ lens_pc = "wait_results"
    /\ \E ready \in BOOLEAN : GoOn("recheck", Step("wait_results", ready, "", ""))
    /\ UNCHANGED <<lensArgs, browser, context, results, tabs_to_process, returned, fault,
                   alerts, lensDisk, smartVars, execVars, genVars, procVars>>

\* page.content() after the navigation and the test for the blocking markers
LensRecheck ==
    /\ lens_pc = "recheck"
    /\ \/ \E content \in PageReads :
             IF IsBlocked(content)
             THEN \E reply \in Deliveries :
                     /\ Alert("RATE LIMIT ERROR", reply)
                     /\ Return(AfterAlert(reply, RateLimited),
                               Step("recheck", FALSE, "blocked", ""))
             ELSE /\ GoOn("no_matches", Step("recheck", TRUE, "clear", ""))
                  /\ UNCHANGED alerts
       \/ \E f \in Raised : Caught(f, "recheck")
    /\ UNCHANGED <<lensArgs, browser, context, results, tabs_to_process, returned, fault,
                   lensDisk, smartVars, execVars, genVars, procVars>>

\* what one check_for_no_matches call can find and, when it finds the
\* page to be a no-matches page, what made it: the phrase in the page text
\* or the link count
NoMatchesChecks ==
    {[found |-> CheckForNoMatches(w, c, content, k, n),
      seen |-> IF ~CheckForNoMatches(w, c, content, k, n) THEN ""
               ELSE IF ~c /\ HasNoMatchesPhrase(content) THEN "phrase"
               ELSE "few links"] :
        w \in ReadRaises, c \in ReadRaises, content \in PageReads, k \in ReadRaises,
        n \in LinkCounts}

\* the for loop goes to its next tab, or ends
NextTab ==
    /\ tabs_to_process' = Tail(tabs_to_process)
    /\ lens_pc' = IF Tail(tabs_to_process) = << >> THEN "aggregate" ELSE "tab_wait"
    /\ UNCHANGED pending

\* check_for_no_matches(page) on the page of the search, then the choice
\* of tabs_to_process
LensNoMatches ==
    /\ lens_pc = "no_matches"
    /\ \E check \in NoMatchesChecks :
          IF check.found
          THEN /\ Return(Outcome(StatusCode.NO_MATCHES, <<"No matches found for your search">>,
                                 NoMatchesResult, 0, "no_matches"),
                         Step("no_matches", TRUE, check.seen, ""))
               /\ UNCHANGED tabs_to_process
          ELSE IF TabsFor(search_type) = << >>
          THEN /\ Return(Outcome(StatusCode.INVALID_URL, <<"Invalid search type provided">>,
                                 << >>, 0, "error"),
                         Step("no_matches", FALSE, check.seen, ""))
               /\ UNCHANGED tabs_to_process
          ELSE /\ tabs_to_process' = TabsFor(search_type)
               /\ GoOn("tab_wait", Step("no_matches", FALSE, check.seen, ""))
    /\ UNCHANGED <<lensArgs, browser, context, results, returned, fault, alerts,
                   lensDisk, smartVars, execVars, genVars, procVars>>

\* the head of the for loop: the random wait
LensTabWait ==
    /\ lens_pc = "tab_wait"
    /\ LET tab == Head(tabs_to_process)
       IN  \/ /\ GoOn(IF tab[1] # "current_page" THEN "tab_click" ELSE "tab_check",
                       Step("tab_wait", TRUE, "", tab[2]))
              /\ UNCHANGED alerts
           \/ \E f \in Raised : Caught(f, "tab_wait")
    /\ UNCHANGED <<lensArgs, browser, context, results, tabs_to_process, returned, fault,
                   lensDisk, smartVars, execVars, genVars, procVars>>

\* `await smart_click(page, tab_type, tab_name)` starts
LensTabClick ==
    /\ lens_pc = "tab_click"
    /\ ncalls < MaxLensCalls
    /\ StartAction("click", Head(tabs_to_process)[1])
    /\ GoOn("tab_clicking", Step("tab_click", TRUE, "", Head(tabs_to_process)[2]))
    /\ UNCHANGED <<lensArgs, browser, context, results, tabs_to_process, returned, fault,
                   alerts, lensDisk, execVars, genVars, procVars>>

\* smart_click returned: the wait that follows a tab switch that worked
LensAfterTabClick ==
    /\ lens_pc = "tab_clicking"
    /\ pc = "done"
    /\ LET tab == Head(tabs_to_process)
       IN  IF Truthy(ret)
           THEN \/ /\ GoOn("tab_check", Step("tab_clicked", TRUE, GenerationFailed, tab[2]))
                   /\ UNCHANGED alerts
                \/ \E f \in Raised : Caught(f, "tab_clicked")
           ELSE /\ GoOn("tab_check", Step("tab_clicked", FALSE, GenerationFailed, tab[2]))
                /\ UNCHANGED alerts
    /\ SmartReturned
    /\ UNCHANGED <<lensArgs, browser, context, results, tabs_to_process, returned, fault,
                   lensDisk, execVars, genVars, procVars>>

\* check_for_no_matches(page) for the tab: `results[key_name] = []; continue`
LensTabCheck ==
    /\ lens_pc = "tab_check"
    /\ LET tab == Head(tabs_to_process)
       IN  \E check \in NoMatchesChecks :
              /\ trace' = Append(trace, Step("tab_check", check.found, "", tab[2]))
              /\ IF check.found
                 THEN /\ results' = SetResult(results, KeyName(tab[2]), << >>)
                      /\ NextTab
                 ELSE /\ lens_pc' = "extract"
                      /\ UNCHANGED <<results, tabs_to_process, pending>>
    /\ UNCHANGED <<lensArgs, browser, context, returned, fault, alerts, lensDisk,
                   smartVars, execVars, genVars, procVars>>

\* links = await extract_product_data(page, tab_name); results[key_name] = links
LensExtract ==
    /\ lens_pc = "extract"
    /\ LET tab == Head(tabs_to_process)
       IN  \E check \in NoMatchesChecks, a \in LinkCounts, b \in 0..MaxLinks :
              LET links == ExtractProductData(check.found, Links(a), Links(b))
              IN  /\ results' = SetResult(results, KeyName(tab[2]), links)
                  /\ trace' = Append(trace, Step("extract", links # << >>, "", tab[2]))
                  /\ NextTab
    /\ UNCHANGED <<lensArgs, browser, context, returned, fault, alerts, lensDisk,
                   smartVars, execVars, genVars, procVars>>

\* after the loop: total_results, the two saves, and the return
LensAggregate ==
    /\ lens_pc = "aggregate"
    /\ \E how1 \in SaveOutcomes, how2 \in SaveOutcomes :
          /\ disk_history' = Saved(disk_history, history, how1)
          /\ disk_cache' = Saved(disk_cache, script_cache, how2)
    /\ LET total_results == TotalResults(results)
       IN  IF total_results > 0
           THEN Return(Outcome(StatusCode.SUCCESS, <<"Search completed successfully">>,
                               results, total_results, "success"),
                       Step("aggregate", TRUE, "", ""))
           ELSE Return(Outcome(StatusCode.NO_MATCHES, <<"No results found">>, results, 0,
                               "no_results"),
                       Step("aggregate", FALSE, "", ""))
    /\ UNCHANGED <<lensArgs, browser, context, results, tabs_to_process, returned, fault,
                   alerts, smartVars, execVars, genVars, procVars>>

\* finally: `if context: await context.close()`; an exception of close()
\* leaves the finally clause, and lens_search, at once
LensCloseContext ==
    /\ lens_pc = "finally"
    /\ context = "open"
    /\ \/ /\ context' = "closed"
          /\ trace' = Append(trace, Step("context.close", TRUE, "", ""))
          /\ UNCHANGED <<lens_pc, fault>>
       \/ \E f \in CloseFaults :
             /\ fault' = <<f>>
             /\ lens_pc' = "escaped"
             /\ trace' = Append(trace, Step("context.close", FALSE, "raised", ""))
             /\ UNCHANGED context
    /\ UNCHANGED <<lensArgs, browser, results, tabs_to_process, pending, returned,
                   alerts, lensDisk, smartVars, execVars, genVars, procVars>>

\* finally: `if browser: await browser.close()`, then the pending value is
\* returned
LensCloseBrowser ==
    /\ lens_pc = "finally"
    /\ context # "open"
    /\ browser = "open"
    /\ \/ /\ browser' = "closed"
          /\ returned' = pending
          /\ lens_pc' = "returned"
          /\ trace' = Append(trace, Step("browser.close", TRUE, "", ""))
          /\ UNCHANGED fault
       \/ \E f \in CloseFaults :
             /\ fault' = <<f>>
             /\ lens_pc' = "escaped"
             /\ trace' = Append(trace, Step("browser.close", FALSE, "raised", ""))
             /\ UNCHANGED <<browser, returned>>
    /\ UNCHANGED <<lensArgs, context, results, tabs_to_process, pending, alerts,
                   lensDisk, smartVars, execVars, genVars, procVars>>

\* finally with nothing to close: the launch had failed
LensFinish ==
    /\ lens_pc = "finally"
    /\ browser = None
    /\ returned' = pending
    /\ lens_pc' = "returned"
    /\ trace' = Append(trace, Step("finally", TRUE, "", ""))
    /\ UNCHANGED <<lensArgs, browser, context, results, tabs_to_process, pending, fault,
                   alerts, lensDisk, smartVars, execVars, genVars, procVars>>

InitLens ==
    /\ ProcIdle
    /\ \E call \in LensCalls :
          /\ image_url = call.url
          /\ search_type = call.type
          /\ history = call.stores.history
          /\ script_cache = call.stores.script_cache
          /\ now = call.stores.now
    /\ lens_pc = "start"
    /\ browser = None
    /\ context = None
    /\ results = << >>
    /\ tabs_to_process = << >>
    /\ pending = << >>
    /\ returned = << >>
    /\ fault = << >>
    /\ alerts = << >>
    /\ disk_history = [state |-> "absent", data |-> << >>]
    /\ disk_cache = [state |-> "absent", data |-> << >>]
    /\ trace = << >>
    /\ fixed_page = << >>
    /\ NoAction
    /\ ExecIdle
    /\ GenIdle

NextLens ==
    \/ LensValidate
    \/ LensStartPlaywright
    \/ LensLaunch
    \/ LensNewContext
    \/ LensNewPage
    \/ LensDirect
    \/ LensManualGoto
    \/ LensFill
    \/ LensAfterFill
    \/ LensClick
    \/ LensAfterClick
    \/ LensWaitResults
    \/ LensRecheck
    \/ LensNoMatches
    \/ LensTabWait
    \/ LensTabClick
    \/ LensAfterTabClick
    \/ LensTabCheck
    \/ LensExtract
    \/ LensAggregate
    \/ LensCloseContext
    \/ LensCloseBrowser
    \/ LensFinish
    \/ TrySelector
    \/ CacheTier
    \/ ExecCached
    \/ Generate
    \/ ExecGenerated

SpecLens == InitLens /\ [][NextLens]_vars

(***************************************************************************)
(* lens_search on a page that does not change: every read of the search    *)
(* sees the same text and the same external links, and no browser          *)
(* operation raises.                                                       *)
(***************************************************************************)
FixedPages == {[text |-> t, links |-> n] : t \in LensPages, n \in 0..MaxLinks}

InitFixedPage ==
    /\ ProcIdle
    /\ image_url = HttpsPrefix \o <<"i">>
    /\ search_type \in SearchTypes
    /\ fixed_page \in {<<p>> : p \in FixedPages}
    /\ \E stores \in {ColdStores, WarmStores} :
          /\ history = stores.history
          /\ script_cache = stores.script_cache
          /\ now = stores.now
    /\ lens_pc = "start"
    /\ browser = None
    /\ context = None
    /\ results = << >>
    /\ tabs_to_process = << >>
    /\ pending = << >>
    /\ returned = << >>
    /\ fault = << >>
    /\ alerts = << >>
    /\ disk_history = [state |-> "absent", data |-> << >>]
    /\ disk_cache = [state |-> "absent", data |-> << >>]
    /\ trace = << >>
    /\ NoAction
    /\ ExecIdle
    /\ GenIdle

\* the steps of lens_search but the finally clause of a failed launch
NextFixedPage ==
    \/ LensValidate
    \/ LensStartPlaywright
    \/ LensLaunch
    \/ LensNewContext
    \/ LensNewPage
    \/ LensDirect
    \/ LensManualGoto
    \/ LensFill
    \/ LensAfterFill
    \/ LensClick
    \/ LensAfterClick
    \/ LensWaitResults
    \/ LensRecheck
    \/ LensNoMatches
    \/ LensTabWait
    \/ LensTabClick
    \/ LensAfterTabClick
    \/ LensTabCheck
    \/ LensExtract
    \/ LensAggregate
    \/ LensCloseContext
    \/ LensCloseBrowser
    \/ TrySelector
    \/ CacheTier
    \/ ExecCached
    \/ Generate
    \/ ExecGenerated

SpecFixedPage == InitFixedPage /\ [][NextFixedPage]_vars

(***************************************************************************)
(* Two searches on one event loop.  lens_search is a coroutine and          *)
(* learning_system is one object of the process: the searches take turns   *)
(* at their awaits, and what a search does between two awaits is one step. *)
(***************************************************************************)
\* faulty variant: the update is applied to the store as the search saw it
\* before its await
RecordOnSnapshot(shared, seen) == seen

\* the store record_selector_success updates: it reads
\* self.selector_success_history in the call itself, after the await
RecordBase(shared, seen) == shared

\* the learning_system is new and no search has called smart_click
InitTwo ==
    /\ SmartIdle
    /\ ExecIdle
    /\ GenIdle
    /\ LensIdle
    /\ ProcIdle

\* smart_click has returned: its locals are gone
Returned(me) == [NoTask EXCEPT !.calls = me.calls]

\* smart_click calls of the two searches in one behaviour
MaxTwoCalls == 2

\* the smart_click calls started so far
Started == tasks[1].calls + tasks[2].calls

\* smart_click of search t up to the awaits of its first selector:
\* get_prioritized_selectors reads the shared store
TwoStart(t) ==
    /\ tasks[t].at = "idle"
    /\ Started < MaxTwoCalls
    /\ \E et \in TwoTypes :
          LET sels == GetPrioritizedSelectors(history, et, LensSelectorsGet(et))
          IN  tasks' = [tasks EXCEPT ![t] =
                           [at |-> IF sels = << >> THEN "cache" ELSE "awaiting",
                            et |-> et, sels |-> sels, k |-> 1, seen |-> history,
                            calls |-> @.calls + 1]]
    /\ UNCHANGED <<tally, uses, persistVars, repeatVars, extractVars, imageVars, smartVars, execVars, genVars, lensVars>>

\* the awaits of one selector end, with the click done or with an
\* exception, and record_selector_success runs; the search goes on to the
\* awaits of the next selector or of the page read
TwoResume(t) ==
    /\ tasks[t].at = "awaiting"
    /\ \E success \in BOOLEAN :
          LET me == tasks[t]
              selector == me.sels[me.k]
              tick == Tick(now)
              h == RecordSelectorSuccess(RecordBase(history, me.seen), me.et, selector,
                                         success, tick)
          IN  /\ history' = h
              /\ now' = tick
              /\ tally' = [tally EXCEPT ![<<me.et, selector>>] =
                              IF success THEN [@ EXCEPT !.ok = @ + 1]
                              ELSE [@ EXCEPT !.failed = @ + 1]]
              /\ tasks' = [tasks EXCEPT ![t] =
                              IF success THEN Returned(me)
                              ELSE [@ EXCEPT !.at = IF me.k = Len(me.sels) THEN "cache"
                                                    ELSE "awaiting",
                                             !.k = me.k + 1,
                                             !.seen = h]]
    /\ UNCHANGED <<uses, persistVars, repeatVars, extractVars, imageVars, script_cache, pc, kind, element_type,
                   default_selectors, prioritized, i, html_context, context_hash,
                   cached_script, ai_script, ret, ncalls, log, hist0, cache0, lastStore,
                   lastLookup, execVars, genVars, lensVars>>

\* the page read ends and get_cached_script runs
TwoCacheTier(t) ==
    /\ tasks[t].at = "cache"
    /\ LET et == tasks[t].et
           found == GetCachedScriptResult(script_cache, et, TwoHash)
       IN  /\ script_cache' = GetCachedScriptCache(script_cache, et, TwoHash)
           /\ uses' = [uses EXCEPT ![et] = IF Truthy(found) THEN @ + 1 ELSE @]
           /\ tasks' = [tasks EXCEPT ![t].at = IF Truthy(found) THEN "exec_cached"
                                                ELSE "generate"]
    /\ UNCHANGED <<tally, persistVars, repeatVars, extractVars, imageVars, history, now, pc, kind, element_type,
                   default_selectors, prioritized, i, html_context, context_hash,
                   cached_script, ai_script, ret, ncalls, log, hist0, cache0, lastStore,
                   lastLookup, execVars, genVars, lensVars>>

\* the run of the cached script ends
TwoExecCached(t) ==
    /\ tasks[t].at = "exec_cached"
    /\ \E worked \in BOOLEAN :
          tasks' = [tasks EXCEPT ![t] = IF worked THEN Returned(@)
                                        ELSE [@ EXCEPT !.at = "generate"]]
    /\ UNCHANGED <<tally, uses, persistVars, repeatVars, extractVars, imageVars, smartVars, execVars, genVars, lensVars>>

\* the generation and the run of the generated script end; a script that
\* worked is stored by cache_script
TwoGenerate(t) ==
    /\ tasks[t].at = "generate"
    /\ \E worked \in BOOLEAN :
          IF worked
          THEN /\ script_cache' = CacheScript(script_cache, tasks[t].et, TwoHash,
                                              "async def act_a(page, *a): ...", Tick(now))
               /\ now' = Tick(now)
               /\ uses' = [uses EXCEPT ![tasks[t].et] = 0]
          ELSE UNCHANGED <<script_cache, now, uses>>
    /\ tasks' = [tasks EXCEPT ![t] = Returned(@)]
    /\ UNCHANGED <<tally, persistVars, repeatVars, extractVars, imageVars, history, pc, kind, element_type,
                   default_selectors, prioritized, i, html_context, context_hash,
                   cached_script, ai_script, ret, ncalls, log, hist0, cache0, lastStore,
                   lastLookup, execVars, genVars, lensVars>>

NextTwo ==
    \E t \in Searches :
       \/ TwoStart(t)
       \/ TwoResume(t)
       \/ TwoCacheTier(t)
       \/ TwoExecCached(t)
       \/ TwoGenerate(t)

SpecTwo == InitTwo /\ [][NextTwo]_vars

(***************************************************************************)
(* The two files over the life of the process: learning_system loads them  *)
(* when it is built, the searches change the stores and save them, and the *)
(* process is started again.                                               *)
(***************************************************************************)
smartLocals == <<pc, kind, element_type, default_selectors, prioritized, i, html_context,
                 context_hash, cached_script, ai_script, ret, ncalls, log, hist0, cache0,
                 lastStore, lastLookup>>

\* a selector_success_history and a script_cache that an earlier process
\* saved
SavedHistory ==
    RecordSelectorSuccess(<< >>, "url_input", LensSelectorsGet("url_input")[1], TRUE, Tick(0))

SavedCache == CacheScript(<< >>, "url_input", TwoHash, "async def act_a(page, *a): ...", Tick(0))

\* what the process can find in the place of a file: nothing, a file that
\* open() refuses, a file that json.load / pickle.load refuses, or a file
\* that an earlier save wrote
FilesOf(store) ==
    {[state |-> st, data |-> << >>] : st \in {"absent", "unreadable", "corrupt"}}
        \cup {[state |-> "written", data |-> store]}

\* faulty variant: the exception of open() or of the parser leaves the load
LoadWithoutCatch(file) ==
    CASE file.state = "absent" -> [store |-> << >>, logged |-> "", raised |-> FALSE]
      [] file.state = "written" -> [store |-> file.data, logged |-> "", raised |-> FALSE]
      [] OTHER -> [store |-> << >>, logged |-> "", raised |-> TRUE]

\* load_learning_data / load_script_cache: the value returned, what was
\* logged, and whether an exception left the call
LoadStore(file) ==
    CASE file.state = "absent" -> [store |-> << >>, logged |-> "", raised |-> FALSE]
      [] file.state = "written" -> [store |-> file.data, logged |-> "", raised |-> FALSE]
      [] OTHER -> [store |-> << >>, logged |-> "warning", raised |-> FALSE]

\* what a save can do: write the file, fail at open() and leave the file
\* alone, or fail in dump() after open() has truncated the file
PersistSaves == {"written", "untouched", "partial"}

\* save_learning_data / save_script_cache: the file and the store after the
\* call, what was logged, and whether an exception left the call
SaveStore(file, store, how) ==
    [file |-> CASE how = "written" -> [state |-> "written", data |-> store]
                [] how = "untouched" -> file
                [] how = "partial" -> [state |-> "corrupt", data |-> << >>],
     store |-> store,
     logged |-> IF how = "written" THEN "" ELSE "error",
     raised |-> FALSE]

\* the process starts: learning_system is about to be built
InitPersist ==
    /\ SmartIdle
    /\ ExecIdle
    /\ GenIdle
    /\ image_url = << >>
    /\ search_type = "all"
    /\ lens_pc = "idle"
    /\ browser = None
    /\ context = None
    /\ results = << >>
    /\ tabs_to_process = << >>
    /\ pending = << >>
    /\ returned = << >>
    /\ fault = << >>
    /\ alerts = << >>
    /\ disk_history \in FilesOf(SavedHistory)
    /\ disk_cache \in FilesOf(SavedCache)
    /\ trace = << >>
    /\ fixed_page = << >>
    /\ tasks = [t \in Searches |-> NoTask]
    /\ tally = [pair \in TwoPairs |-> [ok |-> 0, failed |-> 0]]
    /\ uses = [et \in TwoTypes |-> 0]
    /\ store_pc = "boot"
    /\ last = NoPersist
    /\ keeper = ""
    /\ RestIdle

\* `self.selector_success_history = self.load_learning_data()`
PersistLoadHistory ==
    /\ store_pc = "boot"
    /\ LET r == LoadStore(disk_history)
       IN  /\ history' = r.store
           /\ last' = [op |-> "load_learning_data", file |-> disk_history.state,
                       logged |-> r.logged, mem |-> history]
           /\ store_pc' = IF r.raised THEN "raised" ELSE "boot_cache"
    /\ UNCHANGED <<script_cache, now, smartLocals, disk_history, disk_cache, image_url,
                   search_type, lens_pc, browser, context, results, tabs_to_process, pending,
                   returned, fault, alerts, trace, fixed_page, twoVars, repeatVars, extractVars, imageVars, execVars,
                   genVars>>

\* `self.script_cache = self.load_script_cache()`
PersistLoadCache ==
    /\ store_pc = "boot_cache"
    /\ LET r == LoadStore(disk_cache)
       IN  /\ script_cache' = r.store
           /\ last' = [op |-> "load_script_cache", file |-> disk_cache.state,
                       logged |-> r.logged, mem |-> script_cache]
           /\ store_pc' = IF r.raised THEN "raised" ELSE "up"
    /\ UNCHANGED <<history, now, smartLocals, disk_history, disk_cache, image_url,
                   search_type, lens_pc, browser, context, results, tabs_to_process, pending,
                   returned, fault, alerts, trace, fixed_page, twoVars, repeatVars, extractVars, imageVars, execVars,
                   genVars>>

\* a search of the running process records an attempt or caches a script
PersistUse ==
    /\ store_pc = "up"
    /\ now < Ticks(MaxCalls)
    /\ now' = Tick(now)
    /\ \/ /\ \E success \in BOOLEAN :
                history' = RecordSelectorSuccess(history, "url_input",
                                                 LensSelectorsGet("url_input")[1], success,
                                                 Tick(now))
          /\ UNCHANGED script_cache
       \/ /\ script_cache' = CacheScript(script_cache, "url_input", TwoHash,
                                         "async def act_b(page, *a): ...", Tick(now))
          /\ UNCHANGED history
    /\ last' = [NoPersist EXCEPT !.op = "use"]
    /\ UNCHANGED <<store_pc, smartLocals, disk_history, disk_cache, image_url,
                   search_type, lens_pc, browser, context, results, tabs_to_process, pending,
                   returned, fault, alerts, trace, fixed_page, twoVars, repeatVars, extractVars, imageVars, execVars,
                   genVars>>

\* learning_system.save_learning_data()
PersistSaveHistory ==
    /\ store_pc = "up"
    /\ \E how \in PersistSaves :
          LET r == SaveStore(disk_history, history, how)
          IN  /\ disk_history' = r.file
              /\ history' = r.store
              /\ last' = [op |-> "save_learning_data", file |-> how, logged |-> r.logged,
                          mem |-> history]
              /\ store_pc' = IF r.raised THEN "raised" ELSE "up"
    /\ UNCHANGED <<script_cache, now, smartLocals, disk_cache, image_url,
                   search_type, lens_pc, browser, context, results, tabs_to_process, pending,
                   returned, fault, alerts, trace, fixed_page, twoVars, repeatVars, extractVars, imageVars, execVars,
                   genVars>>

\* learning_system.save_script_cache()
PersistSaveCache ==
    /\ store_pc = "up"
    /\ \E how \in PersistSaves :
          LET r == SaveStore(disk_cache, script_cache, how)
          IN  /\ disk_cache' = r.file
              /\ script_cache' = r.store
              /\ last' = [op |-> "save_script_cache", file |-> how, logged |-> r.logged,
                          mem |-> script_cache]
              /\ store_pc' = IF r.raised THEN "raised" ELSE "up"
    /\ UNCHANGED <<history, now, smartLocals, disk_history, image_url,
                   search_type, lens_pc, browser, context, results, tabs_to_process, pending,
                   returned, fault, alerts, trace, fixed_page, twoVars, repeatVars, extractVars, imageVars, execVars,
                   genVars>>

\* the process ends and a new one starts: the stores in memory are gone,
\* the files stay
PersistRestart ==
    /\ store_pc = "up"
    /\ store_pc' = "boot"
    /\ history' = << >>
    /\ script_cache' = << >>
    /\ last' = NoPersist
    /\ UNCHANGED <<now, smartLocals, disk_history, disk_cache, image_url,
                   search_type, lens_pc, browser, context, results, tabs_to_process, pending,
                   returned, fault, alerts, trace, fixed_page, twoVars, repeatVars, extractVars, imageVars, execVars,
                   genVars>>

NextPersist ==
    \/ PersistLoadHistory
    \/ PersistLoadCache
    \/ PersistUse
    \/ PersistSaveHistory
    \/ PersistSaveCache
    \/ PersistRestart

SpecPersist == InitPersist /\ [][NextPersist]_vars

(***************************************************************************)
(* The same action repeated on a page on which one selector works and the  *)
(* others do not, by a process whose store holds what earlier actions      *)
(* recorded.                                                               *)
(***************************************************************************)
\* p actions in which the first default selector of et worked
RECURSIVE PastWins(_, _)
PastWins(et, p) ==
    IF p = 0 THEN << >>
    ELSE RecordSelectorSuccess(PastWins(et, p - 1), et, LensSelectorsGet(et)[1], TRUE, Ticks(p))

\* one action in which every selector of sels failed, started at clock t
RECURSIVE FailAll(_, _, _, _)
FailAll(h, et, sels, t) ==
    IF sels = << >> THEN h
    ELSE FailAll(RecordSelectorSuccess(h, et, Head(sels), FALSE, Tick(t)), et, Tail(sels),
                 Tick(t))

\* the store after p actions in which the first default selector worked and
\* then m actions in which no selector did
RECURSIVE PastStore(_, _, _)
PastStore(et, p, m) ==
    IF m = 0 THEN PastWins(et, p)
    ELSE LET h == PastStore(et, p, m - 1)
         IN  FailAll(h, et, GetPrioritizedSelectors(h, et, LensSelectorsGet(et)),
                     Ticks(p + (m - 1) * Len(LensSelectorsGet(et))))

\* the caller, the store the process holds and the selector that works
InitRepeat ==
    /\ ExecIdle
    /\ GenIdle
    /\ LensIdle
    /\ tasks = [t \in Searches |-> NoTask]
    /\ tally = [pair \in TwoPairs |-> [ok |-> 0, failed |-> 0]]
    /\ uses = [et \in TwoTypes |-> 0]
    /\ store_pc = "off"
    /\ last = NoPersist
    /\ RestIdle
    /\ \E site \in CallSites, p \in 0..MaxSucc, m \in 0..MaxFail :
          /\ kind = site[1]
          /\ element_type = site[2]
          /\ history = PastStore(site[2], p, m)
          /\ now = Ticks(p + m * Len(LensSelectorsGet(site[2])))
          /\ keeper \in Range(LensSelectorsGet(site[2]))
    /\ script_cache = << >>
    /\ pc = "idle"
    /\ default_selectors = << >>
    /\ prioritized = << >>
    /\ i = 1
    /\ html_context = ""
    /\ context_hash = ""
    /\ cached_script = None
    /\ ai_script = None
    /\ ret = None
    /\ ncalls = 0
    /\ log = << >>
    /\ hist0 = << >>
    /\ cache0 = << >>
    /\ lastStore = NoOp
    /\ lastLookup = [key |-> "", result |-> None]

\* the caller starts the same action again
RepeatCall ==
    /\ ncalls < MaxCalls
    /\ StartAction(kind, element_type)
    /\ UNCHANGED <<execVars, genVars, lensVars, procVars>>

\* one pass of the selector loop on this page: the selector that works
\* ends the action, any other raises
RepeatTry ==
    /\ TrySelector
    /\ log'[Len(log')].ok <=> (prioritized[i] = keeper)

NextRepeat ==
    \/ RepeatCall
    \/ RepeatTry

SpecRepeat == InitRepeat /\ [][NextRepeat]_vars

(***************************************************************************)
(* Properties of smart_click / smart_fill                                  *)
(***************************************************************************)
\* the events of the current action that are selector attempts
SelectEvents == {k \in 1..Len(log) : log[k].ev = "select"}

\* an event that ends the action with True
IsSuccess(e) == e.ev \in {"select", "exec_cached", "exec_gen"} /\ e.ok

\* the entry of (et, selector) in h, the entry of a never recorded selector
\* when there is none
EntryOf(h, et, selector) ==
    IF et \in DOMAIN h /\ IndexOf(h[et], selector) # 0
    THEN h[et][IndexOf(h[et], selector)]
    ELSE NewEntry(selector)

\* C1: the tiers of one action run in order: the cache lookup comes after
\* every prioritized selector was attempted and failed, the generation call
\* comes right after a cache miss or a failed run of the cached script, and
\* nothing follows an event that succeeded.
C1_TiersInOrder ==
    \A k \in 1..Len(log) :
        /\ log[k].ev = "lookup" =>
              /\ k = Len(prioritized) + 1
              /\ \A j \in 1..(k - 1) :
                    /\ log[j].ev = "select"
                    /\ log[j].sel = prioritized[j]
                    /\ ~log[j].ok
        /\ log[k].ev = "exec_cached" =>
              k > 1 /\ log[k - 1].ev = "lookup" /\ log[k - 1].ok
        /\ log[k].ev = "generate" =>
              /\ k > 1
              /\ \/ log[k - 1].ev = "lookup" /\ ~log[k - 1].ok
                 \/ log[k - 1].ev = "exec_cached" /\ ~log[k - 1].ok
        /\ log[k].ev = "exec_gen" =>
              k > 1 /\ log[k - 1].ev = "generate" /\ log[k - 1].ok
        /\ IsSuccess(log[k]) => k = Len(log)

\* an action went through all three tiers: selectors failed, the cached
\* script failed, the generated script worked
C1_Witness ==
    /\ pc = "done"
    /\ kind = "fill"
    /\ Len(log) = Len(prioritized) + 4
    /\ log[Len(log) - 2].ev = "exec_cached"
    /\ log[Len(log)].ev = "exec_gen"
    /\ log[Len(log)].ok

C3_SelectorTier ==
    LET n == Cardinality(SelectEvents)
    IN  pc # "idle" =>
          /\ n <= Len(prioritized)
          /\ SelectEvents = 1..n
          /\ \A k \in 1..n : log[k].sel = prioritized[k] /\ (log[k].ok => k = n)
          /\ \A k \in 1..Len(prioritized) :
                LET before == EntryOf(hist0, element_type, prioritized[k])
                    after == EntryOf(history, element_type, prioritized[k])
                IN  IF k <= n
                    THEN /\ after.success_count =
                               before.success_count + (IF log[k].ok THEN 1 ELSE 0)
                         /\ after.failure_count =
                               before.failure_count + (IF log[k].ok THEN 0 ELSE 1)
                    ELSE after = before

\* the first selector failed, the second succeeded, and the third, which
\* has a record from an earlier action, was left alone
C3_Witness ==
    /\ pc = "done"
    /\ Len(prioritized) = 3
    /\ Len(log) = 2
    /\ ~log[1].ok
    /\ log[2].ok
    /\ EntryOf(history, element_type, prioritized[3]).failure_count > 0

\* the key the cache tier of the current action looked up
LookedUpKey == log[CHOOSE k \in 1..Len(log) : log[k].ev = "lookup"].key

\* the generated script of the current action ran and worked
GeneratedWorked == Len(log) > 0 /\ log[Len(log)].ev = "exec_gen" /\ log[Len(log)].ok

\* C4: when an action is over, the cache holds the generated script, under
\* the key the cache tier looked up, exactly when the generated script ran
\* and succeeded; otherwise no entry was written (an action without a
\* successful generation leaves every script and creation time as they were
\* and adds no key), and other keys are never touched.
C4_StoreIffSucceeded ==
    pc = "done" =>
        IF GeneratedWorked
        THEN /\ DOMAIN script_cache = DOMAIN cache0 \cup {LookedUpKey}
             /\ script_cache[LookedUpKey] = FreshEntry(ai_script, now)
             /\ \A key \in DOMAIN cache0 \ {LookedUpKey} : script_cache[key] = cache0[key]
        ELSE /\ DOMAIN script_cache = DOMAIN cache0
             /\ \A key \in DOMAIN cache0 :
                   /\ script_cache[key].script = cache0[key].script
                   /\ script_cache[key].created_at = cache0[key].created_at

\* a generated script that worked was stored over the cached one that had
\* just failed, and the page read of the cache tier had failed
C4_Witness ==
    /\ pc = "done"
    /\ GeneratedWorked
    /\ LookedUpKey \in DOMAIN cache0
    /\ script_cache[LookedUpKey].script # cache0[LookedUpKey].script

\* C5: every selector record has non-negative counters and a success_rate
\* equal to success_count / (success_count + failure_count), 0 without
\* attempts.
C5_RateFromCounters ==
    \A et \in DOMAIN history : \A k \in 1..Len(history[et]) :
        LET e == history[et][k]
            total == e.success_count + e.failure_count
        IN  /\ e.success_count >= 0
            /\ e.failure_count >= 0
            /\ e.success_rate[2] > 0
            /\ IF total = 0 THEN e.success_rate = ZeroRate
               ELSE e.success_rate[1] * total = e.success_count * e.success_rate[2]

\* a selector that has succeeded once and failed twice
C5_Witness ==
    \E et \in DOMAIN history : \E k \in 1..Len(history[et]) :
        /\ history[et][k].success_count = 1
        /\ history[et][k].failure_count = 2
        /\ history[et][k].success_rate = <<1, 3>>

\* the step is a call of record_selector_success
RecordCalled == Len(log') = Len(log) + 1 /\ log'[Len(log')].ev = "select"

\* C6: a call record_selector_success(element_type, selector, succeeded)
\* leaves the record of (element_type, selector) with exactly one counter
\* increased by one (success_count iff succeeded) from the old record, or
\* from zero counters when there was none, and with last_used set to the
\* time of the call; every other record and the script cache are unchanged.
\* No other step changes the selector records.
C6_RecordFrame ==
    [][ IF RecordCalled
        THEN LET e == log'[Len(log')]
                 old == EntryOf(history, element_type, e.sel)
                 new == EntryOf(history', element_type, e.sel)
             IN  /\ element_type \in DOMAIN history'
                 /\ IndexOf(history'[element_type], e.sel) # 0
                 /\ new.success_count = old.success_count + (IF e.ok THEN 1 ELSE 0)
                 /\ new.failure_count = old.failure_count + (IF e.ok THEN 0 ELSE 1)
                 /\ new.last_used = IsoFormat(now')
                 /\ now' > now
                 /\ DOMAIN history' = DOMAIN history \cup {element_type}
                 /\ \A et \in DOMAIN history' :
                       /\ et \in DOMAIN history => Len(history'[et]) >= Len(history[et])
                       /\ \A k \in 1..Len(history'[et]) :
                             LET s == history'[et][k].selector
                             IN  (et # element_type \/ s # e.sel) =>
                                    /\ et \in DOMAIN history
                                    /\ k <= Len(history[et])
                                    /\ history'[et][k] = history[et][k]
                 /\ script_cache' = script_cache
        ELSE history' = history ]_vars

\* a first record for a selector of an element type, made while the other
\* element type has records and the cache has an entry
C6_Witness ==
    /\ Len(log) > 0
    /\ log[Len(log)].ev = "select"
    /\ element_type \notin DOMAIN hist0
    /\ DOMAIN hist0 # {}
    /\ DOMAIN script_cache # {}

\* C10: a get_cached_script that directly follows a cache_script with the
\* same key returns the stored script and leaves usage_count at 1, also when
\* cache_script replaced an entry that had been hit.
C10_StoreThenLookup ==
    (lastStore.script # None /\ lastStore.lookups = 1 /\ lastLookup.key = lastStore.key) =>
        /\ lastLookup.result = lastStore.script
        /\ lastStore.key \in DOMAIN script_cache
        /\ script_cache[lastStore.key].usage_count = 1

\* the lookup follows a store that replaced an entry which had hits
C10_Witness ==
    /\ lastStore.script # None
    /\ lastStore.hadHits
    /\ lastStore.lookups = 1
    /\ lastLookup.key = lastStore.key

\* the step is a call of get_cached_script
LookupCalled == Len(log') = Len(log) + 1 /\ log'[Len(log')].ev = "lookup"

\* C11: a call of get_cached_script does not raise; when the key is cached
\* it returns the stored script and adds exactly one to the usage_count of
\* that entry, every other field and entry staying as it was; when the key
\* is not cached it returns None and the cache is unchanged. The selector
\* records are not touched either way.
C11_LookupFrame ==
    [][ LookupCalled =>
          LET key == lastLookup'.key
          IN  /\ pc' \in {"exec_cached", "generate"}
              /\ key = log'[Len(log')].key
              /\ IF key \in DOMAIN script_cache
                 THEN /\ lastLookup'.result = script_cache[key].script
                      /\ DOMAIN script_cache' = DOMAIN script_cache
                      /\ script_cache'[key] =
                            [script_cache[key] EXCEPT
                                !.usage_count = script_cache[key].usage_count + 1]
                      /\ \A other \in DOMAIN script_cache \ {key} :
                            script_cache'[other] = script_cache[other]
                 ELSE /\ lastLookup'.result = None
                      /\ script_cache' = script_cache
              /\ history' = history ]_vars

\* a hit on one of two cached scripts: its usage_count is 1 and the other
\* entry still has none
C11_Witness ==
    /\ Len(log) > 0
    /\ log[Len(log)].ev = "lookup"
    /\ log[Len(log)].ok
    /\ script_cache[lastLookup.key].usage_count = 1
    /\ \E other \in DOMAIN script_cache \ {lastLookup.key} :
          script_cache[other].usage_count = 0

\* the step stores the generated script of the current action under key
StoresUnder(key) ==
    /\ Len(log') = Len(log) + 1
    /\ log'[Len(log')].ev = "exec_gen"
    /\ log'[Len(log')].ok
    /\ key = CacheKey(element_type, context_hash)

\* C12: no step removes a cache entry: the cached keys only grow, and the
\* script and creation time of an entry stay as they are through every step
\* (a failed run of the cached script included) except the one that stores
\* a generated script that worked under the same key.
C12_CacheOnlyGrows ==
    [][ /\ DOMAIN script_cache \subseteq DOMAIN script_cache'
        /\ \A key \in DOMAIN script_cache :
              \/ /\ script_cache'[key].script = script_cache[key].script
                 /\ script_cache'[key].created_at = script_cache[key].created_at
              \/ StoresUnder(key) ]_vars

\* the cached script failed in the cache tier, the generated one failed
\* too, and the action ended with the cached script still in place next to
\* another entry
C12_Witness ==
    /\ pc = "done"
    /\ ret = PyFalse
    /\ \E k \in 1..Len(log) : log[k].ev = "exec_cached" /\ ~log[k].ok
    /\ log[Len(log)].ev = "exec_gen"
    /\ script_cache = [cache0 EXCEPT ![LookedUpKey].usage_count = @ + 1]
    /\ Cardinality(DOMAIN script_cache) = 2

(***************************************************************************)
(* Properties of get_prioritized_selectors                                 *)
(***************************************************************************)
\* the records of the element type asked for
StoreEntries == IF element_type \in DOMAIN history THEN history[element_type] ELSE << >>

StoredEntry(selector) == CHOOSE e \in Range(StoreEntries) : e.selector = selector

\* more than 3 successes in 10 attempts
AboveThreshold(e) == 10 * e.success_count > 3 * (e.success_count + e.failure_count)

IsLearned(selector) ==
    \E e \in Range(StoreEntries) : e.selector = selector /\ AboveThreshold(e)

\* success_count / attempts of a compared with that of b
RateAtLeastOf(a, b) ==
    a.success_count * (b.success_count + b.failure_count)
        >= b.success_count * (a.success_count + a.failure_count)

\* the instant a stored timestamp was taken at
TimeOf(stamp) == CHOOSE t \in Instants : IsoFormat(t) = stamp

PosOf(selector) == CHOOSE p \in 1..Len(prioritized) : prioritized[p] = selector

\* C7: the result holds every selector of the element type with a rate
\* above 0.30, all of them before any other selector, ordered by rate
\* descending and, at equal rates, the more recently used first.
C7_LearnedFirst ==
    pc = "prioritized" =>
        /\ \A e \in Range(StoreEntries) :
              AboveThreshold(e) => e.selector \in Range(prioritized)
        /\ \A p, q \in 1..Len(prioritized) :
              /\ (IsLearned(prioritized[q]) /\ ~IsLearned(prioritized[p])) => q < p
              /\ (p < q /\ IsLearned(prioritized[p]) /\ IsLearned(prioritized[q])) =>
                    LET a == StoredEntry(prioritized[p])
                        b == StoredEntry(prioritized[q])
                    IN  /\ RateAtLeastOf(a, b)
                        /\ RateAtLeastOf(b, a) =>
                              TimeOf(a.last_used) >= TimeOf(b.last_used)

\* two learned selectors with the same rate from different counters, the
\* one created later used more recently, and a default that is not learned
C7_Witness ==
    /\ pc = "prioritized"
    /\ Len(prioritized) = 3
    /\ Len(StoreEntries) = 2
    /\ IsLearned(prioritized[1])
    /\ IsLearned(prioritized[2])
    /\ StoreEntries[2].selector = prioritized[1]
    /\ StoreEntries[1].success_count = 1
    /\ StoreEntries[1].failure_count = 1
    /\ StoreEntries[2].success_count = 2
    /\ StoreEntries[2].failure_count = 2
    /\ StoreEntries[1].last_used = IsoFormat(0)
    /\ StoreEntries[2].last_used = IsoFormat(1)

\* C8: the result holds every default selector exactly once and no selector
\* twice; a default that is learned stands in the learned part only, the
\* other defaults keep their relative order; the store is not modified.
C8_DefaultsOnce ==
    pc = "prioritized" =>
        /\ \A d \in Range(default_selectors) :
              Cardinality({p \in 1..Len(prioritized) : prioritized[p] = d}) = 1
        /\ \A p, q \in 1..Len(prioritized) : p # q => prioritized[p] # prioritized[q]
        /\ \A d \in Range(default_selectors) :
              IsLearned(d) =>
                 PosOf(d) <= Cardinality({e \in Range(StoreEntries) : AboveThreshold(e)})
        /\ \A x, y \in 1..Len(default_selectors) :
              (x < y /\ ~IsLearned(default_selectors[x]) /\ ~IsLearned(default_selectors[y]))
                 => PosOf(default_selectors[x]) < PosOf(default_selectors[y])
        /\ history = hist0

\* three defaults of which the second is learned: it moves to the front
\* and the other two follow in their order
C8_Witness ==
    /\ pc = "prioritized"
    /\ Len(default_selectors) = 3
    /\ IsLearned(default_selectors[2])
    /\ prioritized = <<default_selectors[2], default_selectors[1], default_selectors[3]>>
    /\ IndexOf(StoreEntries, default_selectors[1]) # 0

HasEntry == FirstCoroutine(ExecNamespace(BaseNamespace, exec_script.defs)) # None

\* the run of the script throws: while it is loaded, or in its entry function
ScriptThrows ==
    \/ exec_script.load = "raises"
    \/ exec_script.load = "ok" /\ HasEntry /\ exec_script.run \in {"raises", "raises_base"}

\* the entry function of the script never finishes
ScriptHangs == exec_script.load = "ok" /\ HasEntry /\ exec_script.run = "hangs"

\* the script loads and defines no entry function
ScriptHasNoEntry == exec_script.load = "ok" /\ ~HasEntry

\* C13: for a script that throws, that never finishes, or that defines no
\* entry function, execute_ai_script raises nothing, comes back, and returns
\* False.
C13_FalseNeverRaises ==
    (ScriptThrows \/ ScriptHangs \/ ScriptHasNoEntry) =>
        /\ exec_pc # "raised"
        /\ exec_pc = "awaiting" => ENABLED ExecAwait
        /\ exec_pc = "returned" => exec_result = PyFalse

(***************************************************************************)
(* Properties of ask_agent_for_playwright_script                           *)
(***************************************************************************)
\* the call is over
GenOver == gen_pc \in {"returned", "raised"}

\* C14 as stated: one request per call, and the call fails exactly when the
\* request failed or the reply has no code block
C14_FailsWithoutBlock ==
    GenOver =>
        /\ api_calls = 1
        /\ gen_pc = "raised" <=>
              (response[1].kind # "text" \/ ~HasFence(response[1].content))

\* between is text without the blanks around it
IsStripped(text, between) ==
    \E lo \in 1..(Len(text) + 1) : \E hi \in 0..Len(text) :
        /\ between = SubSeq(text, lo, hi)
        /\ \A k \in 1..Len(text) : (k < lo \/ k > hi) => text[k] = Blank
        /\ between # << >> => between[1] # Blank /\ between[Len(between)] # Blank

\* C14: one request per call; the call fails exactly when the request
\* failed or the reply carries no text; a reply without a fence is returned
\* as it is but for the blanks around it, and what is returned for a reply
\* with a fence holds no fence.
C14_FailsWithoutText ==
    GenOver =>
        /\ api_calls = 1
        /\ gen_pc = "raised" <=> response[1].kind # "text"
        /\ gen_pc = "returned" =>
              IF HasFence(response[1].content)
              THEN ~HasFence(gen_script[1])
              ELSE IsStripped(response[1].content, gen_script[1])

\* a reply without a fence came back as the script, less a blank
C14_Witness ==
    /\ gen_pc = "returned"
    /\ ~HasFence(response[1].content)
    /\ gen_script[1] # << >>
    /\ Len(gen_script[1]) < Len(response[1].content)
    /\ Len(messages) = 3

(***************************************************************************)
(* Properties of lens_search                                               *)
(***************************************************************************)
\* lens_search is over: it returned a value or an exception left it
LensOver == lens_pc \in {"returned", "escaped"}

\* the positions of the trace where op happened
StepsOf(op) == {k \in 1..Len(trace) : trace[k].op = op}

HasStep(op) == StepsOf(op) # {}

\* image_url is empty or starts with neither http:// nor https://
Malformed ==
    \/ Len(image_url) = 0
    \/ /\ ~(Len(image_url) >= 7 /\ SubSeq(image_url, 1, 7) = HttpPrefix)
       /\ ~(Len(image_url) >= 8 /\ SubSeq(image_url, 1, 8) = HttpsPrefix)

\* C15: a call with an image_url that is empty or starts with neither
\* http:// nor https:// returns 400 with an empty result and total_results
\* 0 as its first step: no browser, no context, no navigation, no smart
\* action, the two stores and their files as they were.
C15_MalformedUrlRejected ==
    (Malformed /\ lens_pc # "start") =>
        /\ lens_pc = "returned"
        /\ Len(returned) = 1
        /\ returned[1].status_code = 400
        /\ returned[1].result = << >>
        /\ returned[1].total_results = 0
        /\ browser = None /\ context = None
        /\ trace = <<Step("validate", FALSE, "", "")>>
        /\ pc = "idle" /\ ncalls = 0
        /\ history = << >> /\ script_cache = << >>
        /\ disk_history.state = "absent" /\ disk_cache.state = "absent"

\* "not-a-url" was rejected
C15_Witness ==
    /\ lens_pc = "returned"
    /\ image_url = <<"n", "o", "t", "-", "a", "-", "u", "r", "l">>
    /\ returned[1].status_code = StatusCode.INVALID_URL
    /\ returned[1].message = <<"Invalid image URL provided">>

\* C16: when lens_search is over, whether it returned or an exception left
\* it, the browser it launched has been asked to close, and so has the
\* context it opened, also when closing the context failed.
C16_SessionReleased ==
    LensOver =>
        /\ browser # None => HasStep("browser.close")
        /\ context # None => HasStep("context.close")

\* the status codes of constants.StatusCode
StatusCodes == {StatusCode[n] : n \in DOMAIN StatusCode}

\* C17: no exception leaves lens_search, and what it returns is an outcome
\* with a status_code of StatusCode, a message, a result, total_results and
\* a status.
C17_AlwaysAnOutcome ==
    /\ lens_pc # "escaped"
    /\ lens_pc = "returned" =>
          /\ Len(returned) = 1
          /\ DOMAIN returned[1] =
                {"status_code", "message", "result", "total_results", "status"}
          /\ returned[1].status_code \in StatusCodes

\* the re-check after the navigation found a blocking marker
RecheckBlocked == \E k \in StepsOf("recheck") : trace[k].seen = "blocked"

\* the steps the search takes after its re-check
ResultSteps ==
    {"no_matches", "tab_wait", "tab_click", "tab_clicked", "tab_check", "extract",
     "aggregate"}

\* C18: when the re-check after the navigation, direct or manual, finds a
\* blocking marker, the value to return is 429 with an empty result and
\* total_results 0, an alert has been sent, and no no-matches check, tab
\* switch, extraction or aggregation follows.
C18_BlockedShortCircuits ==
    RecheckBlocked =>
        /\ lens_pc \in {"finally", "returned", "escaped"}
        /\ Len(pending) = 1
        /\ pending[1].status_code = 429
        /\ pending[1].result = << >>
        /\ pending[1].total_results = 0
        /\ lens_pc = "returned" => returned = pending
        /\ Len(alerts) = 1 /\ alerts[1].label = "RATE LIMIT ERROR"
        /\ \A k \in 1..Len(trace) : trace[k].op \notin ResultSteps

\* the manual flow ended on a blocked page and 429 was returned
C18_Witness ==
    /\ lens_pc = "returned"
    /\ RecheckBlocked
    /\ HasStep("click_done")
    /\ returned[1].status_code = StatusCode.RATE_LIMITED

\* the direct navigation raised or met a blocking marker
DirectFailed == \E k \in StepsOf("direct") : ~trace[k].ok

\* the direct navigation went through to a page without blocking marker
DirectClear == \E k \in StepsOf("direct") : trace[k].ok

\* C19: the manual flow is entered exactly when the direct navigation
\* raised or met a blocking marker, and runs goto, fill, click in this
\* order; after a direct navigation that went through there is no goto of
\* the landing page, no fill and no click of the search button.
C19_ManualIffDirectFailed ==
    /\ DirectFailed <=> (lens_pc = "manual_goto" \/ HasStep("manual_goto"))
    /\ DirectClear =>
          /\ lens_pc \notin {"manual_goto", "fill", "filling", "click", "clicking",
                             "wait_results"}
          /\ \A k \in 1..Len(trace) :
                trace[k].op \notin {"manual_goto", "fill", "fill_done", "click",
                                    "click_done", "wait_results"}
    /\ \A k \in StepsOf("fill") : \E j \in StepsOf("manual_goto") : j < k
    /\ \A k \in StepsOf("click") : \E j \in StepsOf("fill_done") : j < k /\ trace[j].ok
    /\ \A k \in StepsOf("recheck") :
          \/ \E j \in StepsOf("direct") : j < k /\ trace[j].ok
          \/ \E j \in StepsOf("click_done") : j < k /\ trace[j].ok

\* a blocked direct navigation was followed by the manual flow, whose fill
\* and click went through
C19_Witness ==
    /\ \E k \in StepsOf("direct") : trace[k].seen = "blocked"
    /\ HasStep("manual_goto")
    /\ \E k \in StepsOf("click_done") : trace[k].ok
    /\ lens_pc = "returned"

\* the first no-matches check found one of the phrases in the page
PhraseSeen == \E k \in StepsOf("no_matches") : trace[k].ok /\ trace[k].seen = "phrase"

\* C20: a search with a well-formed image_url on a page without blocking
\* marker that holds a no-matches phrase returns 404 with an empty result
\* and total_results 0.
C20_NoMatchesEmpty ==
    (lens_pc = "returned" /\ ~Malformed /\ PhraseSeen) =>
        /\ returned[1].status_code = 404
        /\ returned[1].result = << >>
        /\ returned[1].total_results = 0

(***************************************************************************)
(* extract_product_data, one step per await                                *)
(***************************************************************************)
\* the tab_name arguments of lens_search
TabNames == {"Visual matches", "Exact matches", "All"}

\* f"Extract product links from Google Lens {tab_name} results"
ExtractTask(tab_name) == "Extract product links from Google Lens " \o tab_name \o " results"

\* what the generated script can hand back for one link: a string, a dict
\* with or without 'link', or something else; text is a sequence of pieces
AiItems ==
    { [type |-> "str", text |-> <<Links(1)[1]>>],
      [type |-> "str", text |-> <<Blank, Links(2)[2], Blank>>],
      [type |-> "str", text |-> <<"/local/item">>],
      [type |-> "str", text |-> <<Blank>>],
      [type |-> "dict", text |-> <<Links(1)[1], Blank>>],
      [type |-> "int", text |-> << >>] }

\* the longest list a generated script returns
MaxItems == 2

\* what page.evaluate(script) returns when it returns a list
AiLists == UNION {[1..n -> AiItems] : n \in 0..MaxItems}

\* `link and link.startswith('http')` for a stripped text
IsHttp(text) == text # << >> /\ Head(text) \in Range(Links(MaxItems))

\* the valid_links of extract_with_ai for the list page.evaluate returned
RECURSIVE ValidLinks(_)
ValidLinks(links) ==
    IF links = << >> THEN << >>
    ELSE LET link == Head(links)
             url == Strip(link.text)
         IN  IF link.type \in {"str", "dict"} /\ IsHttp(url)
             THEN <<url[1]>> \o ValidLinks(Tail(links))
             ELSE ValidLinks(Tail(links))

\* list(set(valid_links)): every link once, in the order the set yields
ListOfSet(valid_links) ==
    {l \in UNION {[1..n -> Range(valid_links)] : n \in 0..Len(valid_links)} :
        /\ Range(l) = Range(valid_links)
        /\ Len(l) = Cardinality(Range(valid_links))}

\* faulty variant: one link does not count as a result
YieldedMany(found) == Len(found) > 1

\* `products and len(products) > 0`
Yielded(found) == found # << >>

\* one call extract_product_data made, with what it returned
Called(fn, out) == [fn |-> fn, out |-> out]

InitExtract ==
    /\ SmartIdle
    /\ ExecIdle
    /\ GenIdle
    /\ LensIdle
    /\ ProcIdle

\* extract_product_data(page, tab_name) is called
ExtractStart(tab_name) ==
    /\ extract_pc = "idle"
    /\ extract_pc' = "check"
    /\ task' = ExtractTask(tab_name)
    /\ UNCHANGED <<products, extracted, calls, page_context, gen_pc, messages, response,
                   api_calls, gen_script, smartVars, execVars, lensVars, twoVars,
                   persistVars, repeatVars, imageVars>>

\* Step 0: `if await check_for_no_matches(page): return []`
ExtractCheck ==
    /\ extract_pc = "check"
    /\ \E w \in BOOLEAN, c \in BOOLEAN, content \in LensPages, k \in BOOLEAN, n \in LinkCounts :
          LET none == CheckForNoMatches(w, c, content, k, n)
          IN  /\ calls' = Append(calls, Called("check_for_no_matches", none))
              /\ extract_pc' = IF none THEN "returned" ELSE "predefined"
    /\ UNCHANGED <<products, extracted, smartVars, execVars, genVars, lensVars, twoVars,
                   persistVars, repeatVars, imageVars>>

\* Step 1: extract_with_predefined_selectors, which returns [] when the
\* page raises, then `if products and len(products) > 0: return products`
ExtractPredefined ==
    /\ extract_pc = "predefined"
    /\ \E raises \in BOOLEAN, n \in LinkCounts :
          /\ products' = IF raises THEN << >> ELSE Links(n)
          /\ calls' = Append(calls, Called("extract_with_predefined_selectors", products'))
          /\ IF Yielded(products')
             THEN extract_pc' = "returned" /\ extracted' = products'
             ELSE extract_pc' = "ask_ai" /\ UNCHANGED extracted
    /\ UNCHANGED <<smartVars, execVars, genVars, lensVars, twoVars, persistVars,
                   repeatVars, imageVars>>

\* Step 2, first half: ask_ai_for_simple_script reads the page, calls the
\* model once and returns the script, "" when the call raises;
\* `if not script: return []` in extract_with_ai
ExtractAskAi ==
    /\ extract_pc = "ask_ai"
    /\ \E contentRaises \in BOOLEAN, reply \in {"raises", "", "script"} :
          /\ page_context' = IF contentRaises THEN "" ELSE "html"
          /\ api_calls' = api_calls + 1
          /\ gen_script' = IF reply = "script" THEN <<"script">> ELSE << >>
          /\ calls' = Append(calls, Called("ask_ai_for_simple_script", gen_script'))
          /\ IF gen_script' = << >>
             THEN extract_pc' = "final_check" /\ products' = << >>
             ELSE extract_pc' = "evaluate" /\ UNCHANGED products
    /\ UNCHANGED <<extracted, task, gen_pc, messages, response, smartVars, execVars,
                   lensVars, twoVars, persistVars, repeatVars, imageVars>>

\* Step 2, second half: page.evaluate(script), the links cleaned and made
\* unique; [] when it raises or returns no list; then the second
\* `if products and len(products) > 0: return products`
ExtractEvaluate ==
    /\ extract_pc = "evaluate"
    /\ \E found \in {<<"raises">>, <<"no list">>} \cup {<<"list", l>> : l \in AiLists} :
          /\ products' \in IF found[1] = "list" THEN ListOfSet(ValidLinks(found[2]))
                           ELSE {<< >>}
          /\ calls' = Append(calls, Called("page.evaluate", found))
    /\ IF Yielded(products')
       THEN extract_pc' = "returned" /\ extracted' = products'
       ELSE extract_pc' = "final_check" /\ UNCHANGED extracted
    /\ UNCHANGED <<smartVars, execVars, genVars, lensVars, twoVars, persistVars,
                   repeatVars, imageVars>>

\* Step 3: the final check_for_no_matches; [] is returned either way
ExtractFinalCheck ==
    /\ extract_pc = "final_check"
    /\ \E w \in BOOLEAN, c \in BOOLEAN, content \in LensPages, k \in BOOLEAN, n \in LinkCounts :
          calls' = Append(calls, Called("check_for_no_matches",
                                        CheckForNoMatches(w, c, content, k, n)))
    /\ extract_pc' = "returned"
    /\ extracted' = << >>
    /\ UNCHANGED <<products, smartVars, execVars, genVars, lensVars, twoVars, persistVars,
                   repeatVars, imageVars>>

NextExtract ==
    \/ \E tab_name \in TabNames : ExtractStart(tab_name)
    \/ ExtractCheck
    \/ ExtractPredefined
    \/ ExtractAskAi
    \/ ExtractEvaluate
    \/ ExtractFinalCheck

SpecExtract == InitExtract /\ [][NextExtract]_vars

(***************************************************************************)
(* scrapper.py: GoogleLensService.search_image                             *)
(***************************************************************************)
max_retries == 3

\* the most results an attempt extracts
MaxResults == 2

\* search_type.replace('_', ' ')
SpacedType(st) ==
    CASE st = "visual_matches" -> "visual matches"
      [] st = "exact_matches" -> "exact matches"
      [] OTHER -> st

\* str(e) of what setup_driver raises
SetupFaults ==
    [no_chrome |-> <<"500: ", "Chrome is not installed.">>,
     no_driver |-> <<"500: ", "Failed to initialize Chrome driver">>,
     after_start |-> <<"Message: ", "disconnected">>]

LensResponse(success, found, st, message) ==
    [success |-> success, results |-> found, total_results |-> Len(found),
     search_type |-> st, message |-> message]

\* faulty variant: the last attempt is retried as well
RetryAlways(n) == TRUE

\* `attempt < max_retries - 1`
Retry(n) == n < max_retries - 1

\* the driver the attempt creates
DriverOf(n) == "driver" \o NatStr(n + 1)

InitImage ==
    /\ SmartIdle
    /\ ExecIdle
    /\ GenIdle
    /\ LensIdle
    /\ tasks = [t \in Searches |-> NoTask]
    /\ tally = [pair \in TwoPairs |-> [ok |-> 0, failed |-> 0]]
    /\ uses = [et \in TwoTypes |-> 0]
    /\ store_pc = "off"
    /\ last = NoPersist
    /\ keeper = ""
    /\ extract_pc = "idle"
    /\ products = << >>
    /\ extracted = << >>
    /\ calls = << >>
    /\ attempt = 0
    /\ driver = None
    /\ live = {}
    /\ image_pc = "idle"
    /\ lens_response = << >>
    /\ chrome_installed \in BOOLEAN
    /\ image_call = << >>

imageRest == <<smartVars, execVars, genVars, lensVars, twoVars, persistVars, repeatVars,
               extractVars>>

\* search_image(image_url, search_type) is called: driver = None and the
\* first pass of `for attempt in range(max_retries)`
ImageCall(url, st) ==
    /\ image_pc = "idle"
    /\ image_call' = [image_url |-> url, search_type |-> st]
    /\ attempt' = 0
    /\ driver' = None
    /\ image_pc' = "setup"
    /\ UNCHANGED <<live, lens_response, chrome_installed, imageRest>>

\* the except clause: continue, or return the failure on the last attempt
ImageExcept(e) ==
    /\ image_pc' = "finally"
    /\ lens_response' =
          IF Retry(attempt) THEN << >>
          ELSE <<LensResponse(FALSE, << >>, image_call.search_type,
                              <<"Search failed after ", NatStr(max_retries),
                                " attempts: ">> \o e)>>

\* driver = self.setup_driver(use_proxy=attempt > 0): it raises when Chrome
\* is not installed or no driver can be created, and also when the driver
\* was created and set_page_load_timeout, implicitly_wait or
\* execute_cdp_cmd raises; then driver is not assigned
ImageSetup ==
    /\ image_pc = "setup"
    /\ IF ~chrome_installed
       THEN /\ ImageExcept(SetupFaults.no_chrome)
            /\ UNCHANGED <<driver, live>>
       ELSE \/ /\ ImageExcept(SetupFaults.no_driver)
               /\ UNCHANGED <<driver, live>>
            \/ /\ live' = live \cup {DriverOf(attempt)}
               /\ ImageExcept(SetupFaults.after_start)
               /\ UNCHANGED driver
            \/ /\ live' = live \cup {DriverOf(attempt)}
               /\ driver' = DriverOf(attempt)
               /\ image_pc' = "search"
               /\ UNCHANGED lens_response
    /\ UNCHANGED <<attempt, chrome_installed, image_call, imageRest>>

\* `if not self.search_by_image_url(...)`: it returns False for every
\* exception; sleep and continue, or return the failure on the last attempt
ImageSearch ==
    /\ image_pc = "search"
    /\ \E started \in BOOLEAN :
          IF started
          THEN image_pc' = "extract" /\ UNCHANGED lens_response
          ELSE /\ image_pc' = "finally"
               /\ lens_response' =
                     IF Retry(attempt) THEN << >>
                     ELSE <<LensResponse(FALSE, << >>, image_call.search_type,
                                         <<"Failed to initiate search with image URL ",
                                           "after multiple attempts">>)>>
    /\ UNCHANGED <<attempt, driver, live, chrome_installed, image_call, imageRest>>

\* results = self.extract_results_by_type(...), [] for every exception;
\* `if results: return ... elif attempt < max_retries - 1: continue else: return`
ImageExtract ==
    /\ image_pc = "extract"
    /\ \E n \in 0..MaxResults :
          lens_response' =
             IF n > 0
             THEN <<LensResponse(TRUE, Links(n), image_call.search_type,
                                 <<"Found ", NatStr(n), " ",
                                   SpacedType(image_call.search_type)>>)>>
             ELSE IF Retry(attempt) THEN << >>
             ELSE <<LensResponse(TRUE, << >>, image_call.search_type,
                                 <<"Search completed but no results found">>)>>
    /\ image_pc' = "finally"
    /\ UNCHANGED <<attempt, driver, live, chrome_installed, image_call, imageRest>>

\* the finally clause: `if driver: try: driver.quit() except: pass;
\* driver = None`; a quit that raises may leave the browser running. Then
\* the return, or the next pass of the loop; a loop that runs out of passes
\* would leave search_image without a response
ImageFinally ==
    /\ image_pc = "finally"
    /\ IF driver # None
       THEN \E quit \in {"quit", "raised, gone", "raised, running"} :
               live' = IF quit = "raised, running" THEN live ELSE live \ {driver}
       ELSE UNCHANGED live
    /\ driver' = None
    /\ IF lens_response # << >>
       THEN image_pc' = "returned" /\ UNCHANGED attempt
       ELSE IF attempt + 1 < max_retries
            THEN attempt' = attempt + 1 /\ image_pc' = "setup"
            ELSE image_pc' = "fell out" /\ UNCHANGED attempt
    /\ UNCHANGED <<lens_response, chrome_installed, image_call, imageRest>>

NextImage ==
    \/ \E url \in {HttpsPrefix \o <<"i">>, << >>}, st \in SearchTypes : ImageCall(url, st)
    \/ ImageSetup
    \/ ImageSearch
    \/ ImageExtract
    \/ ImageFinally

SpecImage == InitImage /\ [][NextImage]_vars

(***************************************************************************)
(* Properties of lens_search on a page that does not change                *)
(***************************************************************************)
\* the text of the fixed page holds one of the no-matches phrases
PhraseOnPage == HasNoMatchesPhrase(fixed_page[1].text)

\* C21: on a page that no read fails on, check_for_no_matches returns true
\* when the page shows no external link, whatever its text, and returns
\* true when its text holds a no-matches phrase, whatever its links.
C21_EitherSuffices ==
    \A k \in StepsOf("no_matches") \cup StepsOf("tab_check") :
        (fixed_page[1].links = 0 \/ PhraseOnPage) => trace[k].ok

\* a page without phrase and without external link was taken for a
\* no-matches page
C21_Witness ==
    /\ lens_pc = "returned"
    /\ fixed_page[1].links = 0
    /\ ~PhraseOnPage
    /\ \E k \in StepsOf("no_matches") : trace[k].ok /\ trace[k].seen = "few links"

\* the fixed page has no blocking marker and no no-matches phrase
PlainPage == ~IsBlocked(fixed_page[1].text) /\ ~PhraseOnPage

\* the outcome of a search for "all" that found the n links of the page
FoundAll(n) ==
    /\ returned[1].status_code = 200
    /\ returned[1].status = "success"
    /\ returned[1].total_results = n
    /\ returned[1].result = <<ListEntry("all", Links(n))>>

RECURSIVE ItemCount(_)
ItemCount(res) ==
    IF res = << >> THEN 0
    ELSE (IF Head(res).text = None THEN Len(Head(res).links) ELSE 0) + ItemCount(Tail(res))

\* C23: in every outcome lens_search returns, the status is success (200)
\* if and only if total_results > 0, total_results is the sum of the lengths
\* of the item lists of the result, and a non-success outcome has
\* total_results = 0.
C23_SuccessIffResults ==
    lens_pc = "returned" =>
        /\ (returned[1].status_code = 200) <=> (returned[1].total_results > 0)
        /\ (returned[1].status = "success") <=> (returned[1].status_code = 200)
        /\ returned[1].total_results = ItemCount(returned[1].result)

\* a search for two categories returned two lists of different lengths
C23_Witness ==
    /\ lens_pc = "returned"
    /\ returned[1].status_code = 200
    /\ Len(returned[1].result) = 2
    /\ Len(returned[1].result[1].links) # Len(returned[1].result[2].links)
    /\ returned[1].total_results = 3

\* a smart action of this search recorded an attempt or stored a script
StoresModified ==
    HasStep("fill_done") \/ HasStep("click_done") \/ HasStep("tab_clicked")

\* C24 as stated: when lens_search returns after a smart action of the
\* search changed the selector statistics or the script cache, the two
\* saves have run before the return and the files hold the stores, on the
\* early returns as on the aggregation path.
C24_FlushedBeforeReturn ==
    (lens_pc = "returned" /\ StoresModified /\ history # << >>) =>
        /\ HasStep("aggregate")
        /\ disk_history.data = history

\* a step of the search logged a failure of the script generation service
GenerationErrorSeen == \E k \in 1..Len(trace) : trace[k].seen = "AI_ERROR"

\* C25 as stated: when the script generation service fails during a search,
\* lens_search returns the generation-error status 507.
C25_GenerationErrorSurfaced ==
    (lens_pc = "returned" /\ GenerationErrorSeen) =>
        returned[1].status_code = StatusCode.AI_ERROR

\* the search ended in the `except Exception` clause of lens_search
CaughtAtTop ==
    /\ Len(alerts) = 1
    /\ alerts[1].label \in {"AI ERROR", "NETWORK ERROR", "UNKNOWN ERROR"}

\* the text of the exception in the message of an outcome
Detail(out) == Tail(out.message)

\* C26 as stated: a fault caught by the outermost handler of lens_search is
\* mapped to 502 when its message mentions a network problem and to the
\* internal-error status 500 otherwise.
C26_NetworkOrInternal ==
    (lens_pc = "returned" /\ CaughtAtTop) =>
        IF LowerContains(Detail(returned[1]), "network")
        THEN returned[1].status_code = StatusCode.NETWORK_ERROR
        ELSE returned[1].status_code = StatusCode.SERVER_ERROR

\* an operation of the search ran into its timeout
TimedOut ==
    /\ Len(alerts) = 1
    /\ \/ alerts[1].label = "TIMEOUT ERROR"
       \/ Contains(Detail(returned[1]), "Timeout")

\* C27 as stated: a search that runs into a timeout returns the timeout
\* status 408.
C27_TimeoutReported ==
    (lens_pc = "returned" /\ TimedOut) => returned[1].status_code = StatusCode.TIMEOUT

\* the steps of lens_search itself
LensSteps ==
    \/ LensValidate \/ LensStartPlaywright \/ LensLaunch \/ LensNewContext \/ LensNewPage
    \/ LensDirect \/ LensManualGoto \/ LensFill \/ LensAfterFill \/ LensClick
    \/ LensAfterClick \/ LensWaitResults \/ LensRecheck \/ LensNoMatches \/ LensTabWait
    \/ LensTabClick \/ LensAfterTabClick \/ LensTabCheck \/ LensExtract \/ LensAggregate
    \/ LensCloseContext \/ LensCloseBrowser

\* the step of lens_search that sends an alert with this reply and returns
\* this outcome
Alerting(reply, out) ==
    /\ LensSteps
    /\ \E label \in {"INVALID URL ERROR", "RATE LIMIT ERROR", "TIMEOUT ERROR", "AI ERROR",
                     "NETWORK ERROR", "UNKNOWN ERROR"} :
          alerts' = Append(alerts, [label |-> label, reply |-> reply])
    /\ \/ pending' = <<out>>
       \/ returned' = <<out>>

\* the outcomes of the returns that follow an alert
AlertOutcomes == {InvalidUrl, RateLimited} \cup {Classify(f).out : f \in Faults}

\* the positions of lens_search at which a step can send an alert, with the
\* operation the step records
AlertingSteps ==
    [start |-> "validate", launch |-> "launch", new_context |-> "new_context",
     new_page |-> "new_page", manual_goto |-> "manual_goto", recheck |-> "recheck",
     tab_wait |-> "tab_wait", tab_clicking |-> "tab_clicked"]

\* C28: at every position of a search where an alert is sent, the step can
\* return an outcome with a delivered alert exactly when it can return the
\* same outcome with a failed alert; alerts are sent at these positions
\* only, and the outcome the search returns is the one its alert was sent
\* for.
C28_AlertNeverChangesOutcome ==
    /\ lens_pc \in DOMAIN AlertingSteps =>
          \A out \in AlertOutcomes :
             (ENABLED Alerting("Notified!", out))
                 <=> (ENABLED Alerting("Slack configuration missing.", out))
    /\ Len(alerts) = 1 =>
          \E k \in 1..Len(trace) :
             /\ ~trace[k].ok
             /\ \E at \in DOMAIN AlertingSteps : trace[k].op = AlertingSteps[at]
    /\ (lens_pc = "returned" /\ Len(alerts) = 1) => returned[1] \in AlertOutcomes

\* a search returned the rate-limited outcome although its alert was not
\* delivered
C28_Witness ==
    /\ lens_pc = "returned"
    /\ Len(alerts) = 1
    /\ alerts[1].reply = "Slack configuration missing."
    /\ returned[1] = RateLimited

\* C29: when two searches interleave at their awaits over the shared
\* stores, the success_count and failure_count of every (element type,
\* selector) are the numbers of successes and failures the two searches
\* recorded, the success_rate is success_count over their sum, and the
\* usage_count of a cached script is the number of hits since it was stored.
C29_NoLostUpdate ==
    /\ \A pair \in TwoPairs :
          LET e == EntryOf(history, pair[1], pair[2])
          IN  /\ e.success_count = tally[pair].ok
              /\ e.failure_count = tally[pair].failed
              /\ e.success_rate = IF tally[pair].ok + tally[pair].failed = 0 THEN ZeroRate
                                  ELSE Divide(tally[pair].ok,
                                              tally[pair].ok + tally[pair].failed)
    /\ \A et \in TwoTypes :
          IF CacheKey(et, TwoHash) \in DOMAIN script_cache
          THEN script_cache[CacheKey(et, TwoHash)].usage_count = uses[et]
          ELSE uses[et] = 0

\* the two searches clicked the same element: while the first was at the
\* awaits of its second selector the other recorded a failure and a
\* success, and the store holds the attempts of both
C29_Witness ==
    /\ tasks[1].calls = 1
    /\ tasks[2].calls = 1
    /\ tasks[1].at = "idle"
    /\ tasks[2].at = "idle"
    /\ \E pair \in TwoPairs : tally[pair].failed = 2
    /\ \E pair \in TwoPairs : tally[pair].ok = 2

\* the store the latest load or save was about, as it is in memory now
StoreOf(op) ==
    IF op \in {"load_learning_data", "save_learning_data"} THEN history ELSE script_cache

\* C30: no load and no save raises; a load that finds its file absent,
\* unreadable or corrupt returns an empty store, with a warning logged in
\* the last two cases; a save that fails logs an error and leaves the store
\* in memory as it was.
C30_PersistenceFaultsContained ==
    /\ store_pc # "raised"
    /\ last.op \in {"load_learning_data", "load_script_cache"} =>
          /\ last.file \in {"absent", "unreadable", "corrupt"} => StoreOf(last.op) = << >>
          /\ last.file \in {"unreadable", "corrupt"} => last.logged = "warning"
    /\ last.op \in {"save_learning_data", "save_script_cache"} =>
          /\ StoreOf(last.op) = last.mem
          /\ last.file # "written" => last.logged = "error"

\* a save of the learning data failed half way with a store that holds an
\* entry, and the process that was started next found the file corrupt and
\* a script cache it could not open
C30_Witness ==
    /\ store_pc = "up"
    /\ now > 0
    /\ last.op = "load_script_cache"
    /\ last.file = "unreadable"
    /\ disk_history.state = "corrupt"
    /\ history = << >>
    /\ script_cache = << >>

\* the record of the selector that works, in store h
KeeperIn(h) == EntryOf(h, element_type, keeper)

\* the action attempted the selector that works first and nothing else
OnlyKeeperTried ==
    /\ prioritized[1] = keeper
    /\ \A k \in 1..Len(log) : log[k].ev = "select" /\ log[k].sel = keeper

\* while the selector keeps working its failure_count stays as it was and
\* its success_rate is success_count over the attempts, so the rate does
\* not decrease and its distance to 1.0 is failure_count over the attempts
KeeperConverges ==
    /\ KeeperIn(history).failure_count = KeeperIn(hist0).failure_count
    /\ ~RateLess(KeeperIn(history).success_rate, KeeperIn(hist0).success_rate)
    /\ KeeperIn(history).success_count > 0 =>
          KeeperIn(history).success_rate
              = Divide(KeeperIn(history).success_count,
                       KeeperIn(history).success_count + KeeperIn(history).failure_count)

KeeperLeads ==
    /\ RateLess(MinSuccessRate, KeeperIn(hist0).success_rate)
    /\ \A k \in 1..Len(hist0[element_type]) :
          ~RateLess(KeeperIn(hist0).success_rate, hist0[element_type][k].success_rate)

C33_InvalidTypeRejected ==
    (lens_pc = "returned" /\ TabsFor(search_type) = << >>) =>
        /\ returned[1].status_code = StatusCode.INVALID_URL
        /\ returned[1].result = << >>
        /\ returned[1].total_results = 0

\* the return statement of a failed step of the manual flow was reached
\* with the 500 outcome, and this is what a search that has returned gave
ManualFailure(msg) ==
    /\ lens_pc \in {"finally", "returned", "escaped"}
    /\ pending = <<Outcome(StatusCode.SERVER_ERROR, msg, << >>, 0, "error")>>
    /\ lens_pc = "returned" => returned = pending

\* C34: in the manual flow the fill of the URL input precedes the click of
\* the search button; a failed fill ends the flow with the 500 outcome
\* without a click, a failed click ends it with the 500 outcome without a
\* wait for results or an extraction; both outcomes have an empty result
\* and total_results 0.
C34_FillThenClick ==
    /\ \A k \in StepsOf("click") : \E j \in StepsOf("fill_done") : j < k /\ trace[j].ok
    /\ \A j \in StepsOf("fill_done") :
          ~trace[j].ok =>
              /\ ~HasStep("click") /\ ~HasStep("wait_results") /\ ~HasStep("extract")
              /\ ManualFailure(<<"Failed to fill URL input field">>)
    /\ \A j \in StepsOf("click_done") :
          ~trace[j].ok =>
              /\ ~HasStep("wait_results") /\ ~HasStep("recheck") /\ ~HasStep("extract")
              /\ ManualFailure(<<"Failed to click search button">>)

\* the fill went through, the click of the search button failed and the
\* search has returned
C34_Witness ==
    /\ lens_pc = "returned"
    /\ \E j \in StepsOf("fill_done") : trace[j].ok
    /\ \E j \in StepsOf("click_done") : ~trace[j].ok

\* C35: a wait for the results that times out does not end the search:
\* like a wait that saw the results it is followed by the re-check for the
\* blocking markers and, when that is clear, by the no-matches check.
C35_WaitTimeoutGoesOn ==
    \A k \in StepsOf("wait_results") :
        /\ k = Len(trace) => (lens_pc = "recheck" /\ pending = << >> /\ alerts = << >>)
        /\ k < Len(trace) => trace[k + 1].op = "recheck"
        /\ (k + 1 < Len(trace) /\ trace[k + 1].ok) => trace[k + 2].op = "no_matches"

\* the wait timed out and the search went on to return links
C35_Witness ==
    /\ lens_pc = "returned"
    /\ returned[1].status_code = 200
    /\ returned[1].total_results > 0
    /\ \E k \in StepsOf("wait_results") : ~trace[k].ok

\* the keys of the result mapping, in insertion order
KeysOf(res) == [k \in 1..Len(res) |-> res[k].key]

\* the keys a search for a category has when its tab loop is over
RequestedKeys ==
    CASE search_type = "all" -> <<"all">>
      [] search_type = "visual_matches" -> <<"visual_matches">>
      [] search_type = "exact_matches" -> <<"exact_matches">>
      [] search_type = "both" -> <<"visual_matches", "exact_matches">>

\* the steps of the tab loop
TabSteps == {"tab_wait", "tab_click", "tab_clicked", "tab_check", "extract"}

OtherTypes == {"tab", "tab_0"}

\* (element type, fingerprint) pairs: the fingerprint is
\* str(hash(html_context)) of a page or of ""
CachePairs ==
    {<<et, PyStr(PageHash(html))>> :
        et \in DOMAIN LENS_SELECTORS \cup OtherTypes, html \in Pages \cup {""}}

\* the cache entry of a pair: << >> when it has none
EntryFor(c, pair) ==
    IF CacheKey(pair[1], pair[2]) \in DOMAIN c THEN <<c[CacheKey(pair[1], pair[2])]>>
    ELSE << >>

\* C37: two distinct (element type, fingerprint) pairs never have the same
\* cache entry: their keys differ, a step of an action leaves the entry of
\* every pair but its own as it was, and a lookup returns the script stored
\* under its own pair or None.
C37_PairsApart ==
    [][/\ \A p, q \in CachePairs :
             CacheKey(p[1], p[2]) = CacheKey(q[1], q[2]) => p = q
       /\ \A p \in CachePairs :
             p # <<element_type', context_hash'>> =>
                 EntryFor(script_cache', p) = EntryFor(script_cache, p)
       /\ lastLookup' # lastLookup =>
             LET own == EntryFor(script_cache, <<element_type', context_hash'>>)
             IN  lastLookup'.result = IF own = << >> THEN None ELSE own[1].script
      ]_vars

\* the cache holds the scripts of two pairs, and only one of them was hit
C37_Witness ==
    \E p, q \in CachePairs :
        /\ EntryFor(script_cache, p) # << >>
        /\ EntryFor(script_cache, q) # << >>
        /\ EntryFor(script_cache, p)[1].usage_count > 0
        /\ EntryFor(script_cache, q)[1].usage_count = 0

\* the selector tier of the running action is over: its loop is exhausted
\* or the action is in the cache tier or the generation tier
PastSelectors ==
    \/ pc = "selectors" /\ LoopExhausted(i, prioritized)
    \/ pc \in {"exec_cached", "generate", "exec_gen"}

\* C38: the cache tier and the generation tier never change the selector
\* statistics: from the end of the selector tier to the return of the action
\* every step leaves the learner store as it is, whether the scripts work
\* or fail.
C38_TiersKeepStatistics ==
    [][PastSelectors => history' = history]_vars

\* an action whose selectors all failed has returned after running a
\* generated script, and the store holds the failures of the selectors
C38_Witness ==
    /\ pc = "done"
    /\ history # << >>
    /\ \E k \in 1..Len(log) : log[k].ev = "exec_cached"
    /\ \E k \in 1..Len(log) : log[k].ev = "exec_gen" /\ ~log[k].ok

(***************************************************************************)
(* Properties of extract_product_data                                      *)
(***************************************************************************)
\* the positions in calls where fn was called
CallsOf(fn) == {k \in 1..Len(calls) : calls[k].fn = fn}

\* C32: structural extraction is tried first and the generated script is
\* requested only after a structural pass that yielded nothing; when the
\* structural pass yields at least one item no generation call is made and
\* its items are what extract_product_data returns.
C32_StructuralFirst ==
    /\ \A k \in CallsOf("ask_ai_for_simple_script") \cup CallsOf("page.evaluate") :
          \E j \in CallsOf("extract_with_predefined_selectors") :
              j < k /\ calls[j].out = << >>
    /\ api_calls = Cardinality(CallsOf("ask_ai_for_simple_script"))
    /\ \A j \in CallsOf("extract_with_predefined_selectors") :
          calls[j].out # << >> =>
              /\ api_calls = 0
              /\ extract_pc = "returned"
              /\ extracted = calls[j].out
              /\ j = Len(calls)

\* the structural pass found a single link and it was returned without a
\* generation call
C32_Witness ==
    /\ extract_pc = "returned"
    /\ extracted = Links(1)
    /\ api_calls = 0
    /\ CallsOf("extract_with_predefined_selectors") = {2}

(***************************************************************************)
(* Properties of GoogleLensService.search_image                            *)
(***************************************************************************)
\* C39: search_image makes at most 3 attempts and never leaves its loop
\* without a response; a response with results has success true and
\* total_results equal to their number and is returned by the attempt that
\* extracted them; success is false only in a response of the third
\* attempt, which did not start the search or raised.
C39_AtMostThreeAttempts ==
    /\ attempt \in 0..2
    /\ image_pc # "fell out"
    /\ image_pc = "returned" => Len(lens_response) = 1
    /\ lens_response # << >> =>
          LET r == lens_response[1]
          IN  /\ image_pc \in {"finally", "returned"}
              /\ r.total_results = Len(r.results)
              /\ r.results # << >> => r.success
              /\ ~r.success =>
                    /\ attempt = 2
                    /\ r.results = << >>
                    /\ \/ r.message[1] = "Failed to initiate search with image URL "
                       \/ r.message[1] = "Search failed after "

\* the second attempt extracted two results and search_image returned them
C39_Witness ==
    /\ image_pc = "returned"
    /\ attempt = 1
    /\ lens_response[1].success
    /\ lens_response[1].total_results = 2

\* C40: a driver created in an attempt is quit before the next attempt
\* starts and before the response is returned, on every path of the
\* attempt, so at most one driver is live at any time and none is live
\* after search_image has returned.
C40_DriversQuit ==
    /\ Cardinality(live) <= 1
    /\ image_pc \in {"setup", "returned"} => live = {}

====
